---- MODULE Spec2Model ----
(***************************************************************************)
(* auto-worktree plugin of opencodium: session registry, worktree          *)
(* provisioning (setupWorktree), the tool.execute.before hook and the      *)
(* tool-argument path rewriter (wrapToolArgs / rewritePath).               *)
(*                                                                         *)
(* Strings of the program are TLA+ strings; they are taken apart with      *)
(* Len / SubSeq, so path and command handling is computed character by     *)
(* character as node's path module and String methods do.                  *)
(***************************************************************************)
EXTENDS Integers, Sequences, FiniteSets, TLC

VARIABLES
    worktreeMap,   \* session.ts: Map sessionID -> worktree path
    branches,      \* git: local branch names of the repository
    worktrees,     \* git: paths of registered worktrees
    dirs,          \* filesystem: directories that exist
    gitignore,     \* filesystem: content of <wtRoot>/.gitignore ("absent" when missing)
    setups,        \* setupWorktree invocations (async frames)
    hooks,         \* plugin instance: "uninit" | "none" | "registered"
    worktreeSetupPromise, \* plugin closure variable: 0 = null, else the setup invocation it wraps
    calls,         \* tool calls of the host, each with its tool.execute.before invocation
    wrap,          \* last direct wrapToolArgs call: input and resulting args
    faker,         \* identity.ts: the shared faker instance (seed, values drawn since)
    regLog,        \* session.ts: the direct calls of setSessionWorktree and
                   \* clearSessionWorktree made so far, oldest first
    idLog,         \* identity.ts: the direct calls of generateIdentity made so far
                   \* with the identity each returned
    narrConfig,    \* git-narration: the plugin's configuration (config)
    work,          \* git-narration: content of the files in the working tree
    head,          \* git-narration: content of the files in the last commit
    toolLog,       \* git-narration: the calls of the write and edit tools made
                   \* so far with their outcome
    snapshots,     \* git-narration: Map callID -> snapshot taken before a bash call
    bashLog,       \* git-narration: the bash calls made so far, the latest
                   \* possibly still between its two hooks
    ignoreFile,    \* dyn-sym: content of <worktree>/.ignore (Undefined when missing)
    excludeFile,   \* dyn-sym: content of <worktree>/.git/info/exclude
    fileLog,       \* dyn-sym: the operations on the two files made so far, each
                   \* with the content before and after
    activeIgnoreSections, \* dyn-sym index.ts: Map callID -> worktree path
    rgCalls,       \* dyn-sym: the host's tool calls, each with the position of
                   \* its two hooks
    bwEnv,         \* bash-wrapper: files that exist and commands in PATH
    bwConfig,      \* bash-wrapper: the loaded configuration (Null when none)
    bwPlugin,      \* bash-wrapper: the plugin instance (hooks, template closure)
    bwCalls        \* bash-wrapper: the number of tool calls of the host and
                   \* the latest one with its args before and after the hook

\* the variables outside the auto-worktree plugin's provisioning and rewriting
\* the state of the git-narration plugin and of the files it works on
narration == <<narrConfig, work, head, toolLog, snapshots, bashLog>>

\* the state of the dyn-sym plugin and of the two files it manages
dynsym == <<ignoreFile, excludeFile, fileLog, activeIgnoreSections, rgCalls>>

\* the state of the bash-wrapper plugin and of its environment
bashwrapper == <<bwEnv, bwConfig, bwPlugin, bwCalls>>

others == <<regLog, idLog, narration, dynsym, bashwrapper>>

vars == <<worktreeMap, branches, worktrees, dirs, gitignore, setups, hooks,
          worktreeSetupPromise, calls, wrap, faker, others>>

----------------------------------------------------------------------------
(* Bounds of the model                                                      *)

\* operations on .ignore and .git/info/exclude in one behaviour
MaxFileOps == 3
\* tool calls of the host while the bash-wrapper plugin is loaded
MaxBwCalls == 2
\* tool calls of the host while the dyn-sym plugin is loaded
MaxRgCalls == 2
\* longest generated input path, in segments
MaxSegs == 3
\* setupWorktree invocations in one behaviour, called one after another
MaxSeqCalls == 3
\* setupWorktree invocations in one behaviour, overlapping
MaxSetups == 2
\* tool.execute.before invocations in one behaviour
MaxCalls == 2
\* setupWorktree invocations that are awaiting at the same time
MaxInFlight == 2
\* applications of wrapToolArgs to one args bag
MaxWraps == 2
\* direct registry calls in one behaviour
MaxRegOps == 3
\* direct generateIdentity calls in one behaviour
MaxIdCalls == 4
\* calls of the git-narration tools in one behaviour
MaxToolCalls == 2
\* bash calls in one behaviour
MaxBashCalls == 2

----------------------------------------------------------------------------
(* JavaScript values and String methods                                     *)

\* An args value: a string, a missing key (undefined) or a non-string value.
Str(x) == [k |-> "str", s |-> x]
Undefined == [k |-> "undefined", s |-> ""]
NonString == [k |-> "other", s |-> ""]
Null == [k |-> "null", s |-> ""]

\* typeof v === "string"
IsString(v) == v.k = "str"

\* !v for the values above (the non-string value stands for a truthy one, e.g. 42)
Falsy(v) == v.k \in {"undefined", "null"} \/ (v.k = "str" /\ v.s = "")

CharAt(s, i) == SubSeq(s, i, i)

\* String.prototype.startsWith
startsWith(s, prefix) ==
    /\ Len(s) >= Len(prefix)
    /\ SubSeq(s, 1, Len(prefix)) = prefix

UpperChars == "ABCDEFGHIJKLMNOPQRSTUVWXYZ"
LowerChars == "abcdefghijklmnopqrstuvwxyz"

LowerChar(c) ==
    IF \E i \in 1..Len(UpperChars) : CharAt(UpperChars, i) = c
    THEN CharAt(LowerChars, CHOOSE i \in 1..Len(UpperChars) : CharAt(UpperChars, i) = c)
    ELSE c

\* String.prototype.toLowerCase
RECURSIVE toLowerCase(_)
toLowerCase(s) ==
    IF s = "" THEN "" ELSE LowerChar(CharAt(s, 1)) \o toLowerCase(Tail(s))

IsSpace(c) == c \in {" ", "\t", "\n"}

\* command.trim().length is truthy: some character is not white space
TrimNonEmpty(s) == \E i \in 1..Len(s) : ~IsSpace(CharAt(s, i))

EscapeChar(c) == IF c = "\"" THEN "\\\"" ELSE IF c = "\\" THEN "\\\\" ELSE c

RECURSIVE EscapeJSON(_)
EscapeJSON(s) ==
    IF s = "" THEN "" ELSE EscapeChar(CharAt(s, 1)) \o EscapeJSON(Tail(s))

\* JSON.stringify of a string
JSONStringify(s) == "\"" \o EscapeJSON(s) \o "\""

----------------------------------------------------------------------------
(* node:path (posix)                                                        *)

\* s.split("/")
RECURSIVE SplitFrom(_, _, _)
SplitFrom(s, i, cur) ==
    IF i > Len(s) THEN <<cur>>
    ELSE IF CharAt(s, i) = "/" THEN <<cur>> \o SplitFrom(s, i + 1, "")
    ELSE SplitFrom(s, i + 1, cur \o CharAt(s, i))

Split(s) == SplitFrom(s, 1, "")

RECURSIVE JoinSegs(_)
JoinSegs(segs) ==
    IF segs = <<>> THEN ""
    ELSE IF Len(segs) = 1 THEN segs[1]
    ELSE segs[1] \o "/" \o JoinSegs(Tail(segs))

\* normalizeString: drops "" and ".", resolves ".." against the segment
\* before it; above the start, ".." is kept (relative) or dropped (absolute).
RECURSIVE NormalizeSegs(_, _, _)
NormalizeSegs(segs, acc, allowAboveRoot) ==
    IF segs = <<>> THEN acc
    ELSE LET h == Head(segs)
             t == Tail(segs)
         IN IF h = "" \/ h = "." THEN NormalizeSegs(t, acc, allowAboveRoot)
            ELSE IF h = ".."
                 THEN IF acc # <<>> /\ acc[Len(acc)] # ".."
                      THEN NormalizeSegs(t, SubSeq(acc, 1, Len(acc) - 1), allowAboveRoot)
                      ELSE IF allowAboveRoot
                           THEN NormalizeSegs(t, Append(acc, ".."), allowAboveRoot)
                           ELSE NormalizeSegs(t, acc, allowAboveRoot)
                 ELSE NormalizeSegs(t, Append(acc, h), allowAboveRoot)

\* path.isAbsolute
isAbsolute(p) == Len(p) > 0 /\ CharAt(p, 1) = "/"

\* path.normalize
normalize(p) ==
    IF p = "" THEN "."
    ELSE LET abs == isAbsolute(p)
             trailing == CharAt(p, Len(p)) = "/"
             body == JoinSegs(NormalizeSegs(Split(p), <<>>, ~abs))
             body2 == IF body = "" /\ ~abs THEN (IF trailing THEN "./" ELSE ".")
                      ELSE IF body # "" /\ trailing THEN body \o "/"
                      ELSE body
         IN IF abs THEN "/" \o body2 ELSE body2

\* path.join(a, b); zero-length arguments are skipped
join(a, b) ==
    IF a = "" /\ b = "" THEN "."
    ELSE IF a = "" THEN normalize(b)
    ELSE IF b = "" THEN normalize(a)
    ELSE normalize(a \o "/" \o b)

\* segments of path.resolve(p) for an absolute p
ResolvedSegs(p) == NormalizeSegs(Split(p), <<>>, FALSE)

RECURSIVE CommonLen(_, _)
CommonLen(a, b) ==
    IF a = <<>> \/ b = <<>> \/ Head(a) # Head(b) THEN 0
    ELSE 1 + CommonLen(Tail(a), Tail(b))

\* path.relative(from, to), both absolute
relative(from, to) ==
    LET f == ResolvedSegs(from)
        t == ResolvedSegs(to)
        n == CommonLen(f, t)
        ups == [i \in 1..(Len(f) - n) |-> ".."]
    IN JoinSegs(ups \o SubSeq(t, n + 1, Len(t)))

----------------------------------------------------------------------------
(* session.ts                                                               *)

\* worktreeMap.set(sessionID, worktreePath)
setSessionWorktree(map, sessionID, worktreePath) ==
    [t \in DOMAIN map \cup {sessionID} |->
        IF t = sessionID THEN worktreePath ELSE map[t]]

\* a lookup that falls back to the path the session would be given
getSessionWorktree_Fallback(map, sessionID) ==
    IF sessionID \in DOMAIN map THEN Str(map[sessionID])
    ELSE Str("/repo/.opencode/worktrees/" \o sessionID)

\* worktreeMap.get(sessionID)
getSessionWorktree(map, sessionID) ==
    IF sessionID \in DOMAIN map THEN Str(map[sessionID]) ELSE Undefined

\* worktreeMap.clear() in place of delete
clearSessionWorktree_All(map, sessionID) == [t \in {} |-> ""]

\* worktreeMap.delete(sessionID)
clearSessionWorktree(map, sessionID) ==
    [t \in DOMAIN map \ {sessionID} |-> map[t]]

\* worktreeMap.has(sessionID)
hasSessionWorktree(map, sessionID) == sessionID \in DOMAIN map

EmptyMap == [t \in {} |-> ""]

----------------------------------------------------------------------------
(* wrapper.ts                                                               *)

\* every absolute path joined under the worktree, also one outside the root
rewritePath_AlwaysJoin(filePath, worktreePath, rootDirectory) ==
    IF isAbsolute(filePath)
    THEN join(worktreePath, relative(rootDirectory, filePath))
    ELSE join(worktreePath, filePath)

rewritePath(filePath, worktreePath, rootDirectory) ==
    IF isAbsolute(filePath)
    THEN LET rel == relative(rootDirectory, filePath)
         IN IF ~startsWith(rel, "..")
            THEN join(worktreePath, rel)
            ELSE filePath
    ELSE join(worktreePath, filePath)

AllowList == {"bash", "read", "write", "edit", "glob", "grep", "list"}

\* the comparison without toLowerCase
shouldWrapTool_CaseSensitive(toolName) == toolName \in AllowList

shouldWrapTool(toolName) == toLowerCase(toolName) \in AllowList

\* a supplied workdir kept as it is
BashWorkdir_KeepSupplied(workdir, worktreePath, rootDirectory) ==
    IF IsString(workdir) THEN workdir ELSE Str(worktreePath)

\* args.workdir of a bash call after wrapToolArgs
BashWorkdir(workdir, worktreePath, rootDirectory) ==
    LET currentWorkdir == IF IsString(workdir) THEN workdir.s ELSE rootDirectory
    IN Str(rewritePath(currentWorkdir, worktreePath, rootDirectory))

\* the prefix put in front whether or not the command carries it
BashCommand_NoGuard(command, worktreePath) ==
    IF IsString(command) /\ TrimNonEmpty(command.s)
    THEN Str("cd " \o JSONStringify(worktreePath) \o " && " \o "(" \o command.s \o ")")
    ELSE command

\* args.command of a bash call after wrapToolArgs
BashCommand(command, worktreePath) ==
    IF IsString(command) /\ TrimNonEmpty(command.s)
    THEN LET quoted == JSONStringify(worktreePath)
             prefix == "cd " \o quoted \o " && "
         IN IF ~startsWith(command.s, prefix)
            THEN Str(prefix \o "(" \o command.s \o ")")
            ELSE command
    ELSE command

\* a missing path left missing
SearchPath_NoDefault(p, worktreePath, rootDirectory) ==
    IF IsString(p) THEN Str(rewritePath(p.s, worktreePath, rootDirectory)) ELSE p

\* args.path of a glob, grep or list call after wrapToolArgs
SearchPath(p, worktreePath, rootDirectory) ==
    IF IsString(p)
    THEN Str(rewritePath(p.s, worktreePath, rootDirectory))
    ELSE Str(worktreePath)

\* The args bag after wrapToolArgs (args is mutated in place in the source).
wrapToolArgs(map, sessionID, tool, args, rootDirectory) ==
    LET wt == getSessionWorktree(map, sessionID)
        worktreePath == wt.s
        toolName == toLowerCase(tool)
    IN IF Falsy(wt) THEN args
       ELSE IF toolName = "bash"
       THEN [args EXCEPT
               !.workdir = BashWorkdir(args.workdir, worktreePath, rootDirectory),
               !.command = BashCommand(args.command, worktreePath)]
       ELSE IF toolName \in {"read", "write", "edit"}
       THEN IF IsString(args.filePath)
            THEN [args EXCEPT !.filePath =
                     Str(rewritePath(args.filePath.s, worktreePath, rootDirectory))]
            ELSE args
       ELSE IF toolName \in {"glob", "grep", "list"}
       THEN [args EXCEPT !.path = SearchPath(args.path, worktreePath, rootDirectory)]
       ELSE args

----------------------------------------------------------------------------
(* identity.ts and config.ts                                                *)

\* The session tokens of the model; "" is the token of a call that carries
\* no sessionID.
Sessions == {"ses_a", "ses_b"}

\* createHash("sha256").update(sessionID).digest("hex").substring(0, 8)
Sha256Hex8(sessionID) ==
    CASE sessionID = "ses_a" -> "1aa5bf90"
      [] sessionID = "ses_b" -> "e94d8d65"
      [] OTHER -> "e3b0c442"

\* faker.seed(parseInt(hash, 16)); faker.person.middleName()
FakerMiddleName(hash) ==
    CASE hash = "1aa5bf90" -> "Reagan"
      [] hash = "e94d8d65" -> "Quinn"
      [] OTHER -> "Sawyer"

UpperChar(c) ==
    IF \E i \in 1..Len(LowerChars) : CharAt(LowerChars, i) = c
    THEN CharAt(UpperChars, CHOOSE i \in 1..Len(LowerChars) : CharAt(LowerChars, i) = c)
    ELSE c

\* the default faker instance before anything seeded it
FakerUnseeded == [seed |-> "random", n |-> 0]

\* the generator seeded on its first use only
FakerSeed_Once(f, seed) == IF f.seed = "random" THEN [seed |-> seed, n |-> 0] ELSE f

\* faker.seed(seed): the sequence of values starts over for that seed
FakerSeed(f, seed) == [seed |-> seed, n |-> 0]

\* middle names in the order the generator runs through them
NameList == <<"Reagan", "Quinn", "Sawyer", "Rowan", "Marlowe">>

NameIndex(name) == CHOOSE k \in 1..Len(NameList) : NameList[k] = name

\* faker.person.middleName(): value number f.n of the sequence its seed
\* determines; the generator moves on by one
FakerDraw(f) ==
    [value |-> NameList[((NameIndex(FakerMiddleName(f.seed)) - 1 + f.n) % Len(NameList)) + 1],
     faker |-> [f EXCEPT !.n = @ + 1]]

\* generateIdentity on the shared generator in state f: the identity it
\* returns and the generator afterwards
generateIdentityOn(f, sessionID) ==
    LET hash == Sha256Hex8(sessionID)
        seeded == FakerSeed(f, hash)
        drawn == FakerDraw(seeded)
        middleName == toLowerCase(drawn.value)
    IN [identity |->
          [branchName |-> "auto-worktree/" \o middleName \o "-" \o hash,
           userName |-> UpperChar(CharAt(middleName, 1)) \o Tail(middleName),
           userEmail |-> middleName \o "@opencode.ai",
           middleName |-> middleName,
           hash |-> hash],
        faker |-> drawn.faker]

\* the identity of a call, whatever the generator's state (C18)
generateIdentity(sessionID) ==
    LET hash == Sha256Hex8(sessionID)
        middleName == toLowerCase(FakerMiddleName(hash))
    IN [branchName |-> "auto-worktree/" \o middleName \o "-" \o hash,
        userName |-> UpperChar(CharAt(middleName, 1)) \o Tail(middleName),
        userEmail |-> middleName \o "@opencode.ai",
        middleName |-> middleName,
        hash |-> hash]

getWorktreeName(identity) == identity.middleName \o "-" \o identity.hash

defaultConfig == [baseDir |-> ".opencode", worktreesDir |-> "worktrees"]

\* input.directory of the plugin instance, the root of the repository
RootDir == "/repo"

\* path.join(rootDir, config.baseDir, config.worktreesDir)
WtRoot(rootDir, config) == join(join(rootDir, config.baseDir), config.worktreesDir)

\* generateIdentity of the model's tokens, evaluated once
Identities == [t \in Sessions \cup {""} |-> generateIdentity(t)]

\* wtRoot of ensureWorktreeDir for the plugin's directory and configuration
WorktreesDir == WtRoot(RootDir, defaultConfig)

\* path.join(wtRoot, wtName) of setupWorktree, per token
WorktreePaths ==
    [t \in Sessions \cup {""} |-> join(WorktreesDir, getWorktreeName(Identities[t]))]

WorktreePathOf(sessionID) == WorktreePaths[sessionID]

----------------------------------------------------------------------------
(* Inputs of the direct wrapToolArgs calls                                  *)

SegAlphabet == {"repo", "src", "..", "..foo"}

SegSeqs == UNION {[1..n -> SegAlphabet] : n \in 0..MaxSegs}

\* every absolute and every relative path of at most MaxSegs segments, and
\* some paths with trailing or doubled separators and inside the worktree
PathInputs ==
    {JoinSegs(q) : q \in SegSeqs}
      \cup {"/" \o JoinSegs(q) : q \in SegSeqs}
      \cup {"/repo/", "/repo//src/./a.ts", "src/", ".",
            WorktreePathOf("ses_a") \o "/src"}

ToolInputs == {"bash", "BASH", "read", "Write", "edit", "glob", "Grep", "list",
               "task", "webfetch", "todowrite", "bashx", ""}

CommandInputs ==
    {Str("ls"), Str(""), Str("  "), Str("echo \"hi\""), Undefined, NonString,
     Str("cd " \o JSONStringify(WorktreePathOf("ses_a")) \o " && (ls)")}

PathBag(p) ==
    [command |-> Str("ls"), workdir |-> Str(p), filePath |-> Str(p),
     path |-> Str(p), pattern |-> Str("TODO")]

SparseValues == {Undefined, NonString, Str("src")}

NoArgs ==
    [command |-> Undefined, workdir |-> Undefined, filePath |-> Undefined,
     path |-> Undefined, pattern |-> Undefined]

NoWrap == [called |-> FALSE, sessionID |-> "", tool |-> "", before |-> NoArgs,
           after |-> NoArgs, again |-> NoArgs, times |-> 0]

----------------------------------------------------------------------------------------------------------------------------------------------------
(* The state outside the plugin under study, when the process starts        *)

\* the files of the model: one committed in the repository, one in a
\* directory of the repository that does not exist yet, one outside
NarrPaths == {"/repo/a.txt", "/repo/new/c.txt", "/tmp/out.txt"}

NoFiles == [p \in NarrPaths |-> Undefined]

\* a.txt committed and unchanged since
CleanTree == [NoFiles EXCEPT !["/repo/a.txt"] = Str("hello\n")]

NoSnapshots == [c \in {} |-> Undefined]

NarrationIdle ==
    /\ narrConfig = [strictCommit |-> FALSE, trackBash |-> TRUE]
    /\ work = CleanTree
    /\ head = CleanTree
    /\ toolLog = <<>>
    /\ snapshots = NoSnapshots
    /\ bashLog = <<>>

NoActiveSections == [c \in {} |-> ""]

DynSymIdle ==
    /\ ignoreFile = Undefined
    /\ excludeFile = Undefined
    /\ fileLog = <<>>
    /\ activeIgnoreSections = NoActiveSections
    /\ rgCalls = <<>>

BashWrapperIdle ==
    /\ bwEnv = [files |-> {}, path |-> {}]
    /\ bwConfig = Null
    /\ bwPlugin = [state |-> "uninit", template |-> Null,
                     env |-> [files |-> {}, path |-> {}]]
    /\ bwCalls = [n |-> 0, last |-> Undefined]

OthersInit ==
    /\ faker = FakerUnseeded
    /\ regLog = <<>>
    /\ idLog = <<>>
    /\ NarrationIdle
    /\ DynSymIdle
    /\ BashWrapperIdle

----
(* Direct calls of wrapToolArgs (the exported function, as the unit tests   *)
(* call it)                                                                 *)

WrapToolArgsCall(sessionID, tool, args) ==
    /\ wrap' = LET out == wrapToolArgs(worktreeMap, sessionID, tool, args, RootDir)
               IN [called |-> TRUE, sessionID |-> sessionID, tool |-> tool,
                   before |-> args, after |-> out, again |-> out, times |-> 1]
    /\ UNCHANGED <<worktreeMap, branches, worktrees, dirs, gitignore, setups,
                   hooks, worktreeSetupPromise, calls, faker, others>>

WrapPathArgs ==
    /\ ~wrap.called
    /\ \E sessionID \in Sessions, tool \in ToolInputs, p \in PathInputs :
          WrapToolArgsCall(sessionID, tool, PathBag(p))

WrapSparseArgs ==
    /\ ~wrap.called
    /\ \E sessionID \in Sessions, tool \in ToolInputs, c \in CommandInputs,
          w \in SparseValues, f \in SparseValues, q \in SparseValues :
          WrapToolArgsCall(sessionID, tool,
              [command |-> c, workdir |-> w, filePath |-> f, path |-> q,
               pattern |-> Str("TODO")])

\* wrapToolArgs called once more on the bag it has already rewritten, as a
\* second interception of the same call does; again holds the bag after the
\* latest application, after the bag of the first
WrapAgain ==
    /\ wrap.called
    /\ wrap.times < MaxWraps
    /\ wrap' = [wrap EXCEPT
                  !.again = wrapToolArgs(worktreeMap, wrap.sessionID, wrap.tool,
                                         wrap.again, RootDir),
                  !.times = @ + 1]
    /\ UNCHANGED <<worktreeMap, branches, worktrees, dirs, gitignore, setups,
                   hooks, worktreeSetupPromise, calls, faker, others>>

InitWrap ==
    /\ worktreeMap \in {EmptyMap,
                        setSessionWorktree(EmptyMap, "ses_a", WorktreePathOf("ses_a"))}
    /\ branches = {}
    /\ worktrees = {}
    /\ dirs = {}
    /\ gitignore = "absent"
    /\ setups = <<>>
    /\ hooks = "uninit"
    /\ worktreeSetupPromise = 0
    /\ calls = <<>>
    /\ wrap = NoWrap
    /\ OthersInit

NextWrap == WrapPathArgs \/ WrapSparseArgs \/ WrapAgain

SpecWrap == InitWrap /\ [][NextWrap]_vars

----------------------------------------------------------------------------
(* Properties of the path rewriter, checked under SpecWrap                  *)

\* absolute path p designates root or a descendant of root
Inside(root, p) ==
    LET r == ResolvedSegs(root)
        q == ResolvedSegs(p)
    IN Len(q) >= Len(r) /\ SubSeq(q, 1, Len(r)) = r

\* the key of the args bag that holds the path a tool works on
PathKeyOf(tool) ==
    LET t == toLowerCase(tool)
    IN IF t = "bash" THEN "workdir"
       ELSE IF t \in {"read", "write", "edit"} THEN "filePath"
       ELSE "path"

ClaimedTools == {"bash", "read", "write", "edit", "glob", "grep", "list"}

IsClaimedTool(tool) == LET t == toLowerCase(tool) IN t \in ClaimedTools

WrapRegistered == wrap.called /\ hasSessionWorktree(worktreeMap, wrap.sessionID)

\* C2 (as claimed): for a session with a registered worktree and an
\* allow-listed tool, a path argument that was relative or inside
\* rootDirectory designates a location inside the worktree afterwards.
C2_Isolation ==
    (WrapRegistered /\ IsClaimedTool(wrap.tool)) =>
        LET key == PathKeyOf(wrap.tool)
            old == wrap.before[key]
            new == wrap.after[key]
        IN (IsString(old) /\ (~isAbsolute(old.s) \/ Inside(RootDir, old.s))) =>
              /\ IsString(new)
              /\ isAbsolute(new.s)
              /\ Inside(worktreeMap[wrap.sessionID], new.s)

\* C8: without a registry entry for the session, wrapToolArgs leaves every
\* key of args unchanged, whatever the tool and the bag.
C8_NoSessionNoOp ==
    (wrap.called /\ ~hasSessionWorktree(worktreeMap, wrap.sessionID)) =>
        wrap.after = wrap.before

C8_Witness ==
    /\ wrap.called
    /\ ~hasSessionWorktree(worktreeMap, wrap.sessionID)
    /\ toLowerCase(wrap.tool) = "read"
    /\ wrap.before.filePath = Str("/repo/src")
    /\ wrap.after.filePath = Str("/repo/src")

\* C9: a tool is eligible exactly when its lower-cased name is one of the
\* seven; for any other tool shouldWrapTool is false and wrapToolArgs leaves
\* args unchanged even with a registered worktree, while a relative path
\* given to an eligible tool of a registered session is rewritten.
C9_AllowList ==
    wrap.called =>
        /\ shouldWrapTool(wrap.tool) <=> IsClaimedTool(wrap.tool)
        /\ ~IsClaimedTool(wrap.tool) => wrap.after = wrap.before
        /\ (WrapRegistered /\ wrap.before = PathBag("src")) =>
              (wrap.after # wrap.before <=> shouldWrapTool(wrap.tool))

C9_Witness ==
    /\ WrapRegistered
    /\ wrap.tool = "task"
    /\ wrap.before = PathBag("/repo/src")
    /\ wrap.after = wrap.before

\* C10 (as claimed): an absolute path inside rootDirectory is remapped to
\* worktreePath joined with its path relative to rootDirectory.
C10_RemapInsideRoot ==
    (WrapRegistered /\ IsClaimedTool(wrap.tool)) =>
        LET key == PathKeyOf(wrap.tool)
            old == wrap.before[key]
        IN (IsString(old) /\ isAbsolute(old.s) /\ Inside(RootDir, old.s)) =>
              wrap.after[key] =
                 Str(join(worktreeMap[wrap.sessionID], relative(RootDir, old.s)))

\* the worktree of the session of the direct call
WrapWorktree == worktreeMap[wrap.sessionID]

WrapTool == toLowerCase(wrap.tool)

\* C11: an absolute path that is not rootDirectory or a descendant of it is
\* returned unchanged, character for character, by every allow-listed tool's
\* path argument, on the first and on a repeated application.
C11_RemapOutsideRoot ==
    (WrapRegistered /\ IsClaimedTool(wrap.tool)) =>
        LET key == PathKeyOf(wrap.tool)
            old == wrap.before[key]
        IN (IsString(old) /\ isAbsolute(old.s) /\ ~Inside(RootDir, old.s)) =>
              /\ wrap.after[key] = old
              /\ wrap.again[key] = old

C11_Witness ==
    /\ WrapRegistered
    /\ wrap.tool = "read"
    /\ wrap.before.filePath = Str("/repo/../src")
    /\ wrap.after.filePath = Str("/repo/../src")
    /\ wrap.times = MaxWraps

\* the guard prefix as the claim writes it: cd "W" && 
CdPrefix(W) == "cd \"" \o W \o "\" && "

\* s has a character that is not white space
HasInk(s) == \E i \in 1..Len(s) : SubSeq(s, i, i) \notin {" ", "\t", "\n", "\r"}

\* C12 (as claimed): a bash command that is a non-empty string c without the
\* prefix cd "W" && becomes cd "W" && (c), and applying wrapToolArgs again
\* leaves that command identical.
C12_BashWrap ==
    (WrapRegistered /\ WrapTool = "bash") =>
        LET c == wrap.before.command
        IN (IsString(c) /\ c.s # "" /\ ~startsWith(c.s, CdPrefix(WrapWorktree))) =>
              /\ wrap.after.command = Str(CdPrefix(WrapWorktree) \o "(" \o c.s \o ")")
              /\ wrap.again.command = wrap.after.command

\* C12 (amended): a bash command c with at least one character that is not
\* white space and without the prefix cd "W" && becomes cd "W" && (c); a
\* command of white space only is left as it is; in both cases applying
\* wrapToolArgs again leaves the command of the first application identical.
C12_BashWrapNonBlank ==
    (WrapRegistered /\ WrapTool = "bash") =>
        LET c == wrap.before.command
        IN /\ (IsString(c) /\ HasInk(c.s) /\ ~startsWith(c.s, CdPrefix(WrapWorktree))) =>
                 wrap.after.command = Str(CdPrefix(WrapWorktree) \o "(" \o c.s \o ")")
           /\ (IsString(c) /\ ~HasInk(c.s)) => wrap.after.command = c
           /\ wrap.again.command = wrap.after.command

C12_Witness ==
    /\ WrapRegistered
    /\ wrap.tool = "BASH"
    /\ wrap.before.command = Str("echo \"hi\"")
    /\ wrap.after.command = Str(CdPrefix(WrapWorktree) \o "(echo \"hi\")")
    /\ wrap.times = MaxWraps
    /\ wrap.again.command = wrap.after.command

\* C28: wrapToolArgs is idempotent on the whole argument bag: for a session
\* with a registered worktree and an allow-listed tool, the bag after two
\* applications equals the bag after one; in particular a filePath, path or
\* workdir that the first application left inside the worktree is not
\* changed by the second
C28_WrapIdempotent ==
    (WrapRegistered /\ shouldWrapTool(wrap.tool) /\ wrap.times >= 2) =>
        wrap.again = wrap.after

\* the part of C28 the code keeps: the command of the bag is not wrapped a
\* second time, and a tool off the allow-list has its bag returned as it is
C28_CommandIdempotent ==
    (WrapRegistered /\ wrap.times >= 2) =>
        /\ wrap.again.command = wrap.after.command
        /\ ~shouldWrapTool(wrap.tool) => wrap.again = wrap.after

C28_NestedReached ==
    /\ WrapRegistered
    /\ wrap.tool = "read"
    /\ wrap.before.filePath = Str("/repo/src")
    /\ wrap.after.filePath = Str(WrapWorktree \o "/src")
    /\ wrap.times = 2
    /\ wrap.again.filePath # wrap.after.filePath

\* C13: a bash call's workdir afterwards is the remap of the workdir that was
\* supplied as a string, and the worktree path (the remap of rootDirectory)
\* when none was, whether or not the call carries a command.
C13_BashWorkdir ==
    (WrapRegistered /\ WrapTool = "bash") =>
        LET w == wrap.before.workdir
        IN /\ IsString(w) =>
                 wrap.after.workdir = Str(rewritePath(w.s, WrapWorktree, RootDir))
           /\ ~IsString(w) => wrap.after.workdir = Str(WrapWorktree)
           /\ rewritePath(RootDir, WrapWorktree, RootDir) = WrapWorktree

C13_Witness ==
    /\ WrapRegistered
    /\ wrap.tool = "bash"
    /\ wrap.before.command = Undefined
    /\ wrap.before.workdir = Undefined
    /\ wrap.after.workdir = Str(WrapWorktree)

\* C14: after wrapToolArgs for glob, grep or list the path argument is never
\* absent: it is the worktree path when no string path was supplied and the
\* remap of the supplied path when one was.
C14_SearchPathDefault ==
    (WrapRegistered /\ WrapTool \in {"glob", "grep", "list"}) =>
        LET q == wrap.before.path
        IN /\ IsString(wrap.after.path)
           /\ IsString(q) =>
                 wrap.after.path = Str(rewritePath(q.s, WrapWorktree, RootDir))
           /\ ~IsString(q) => wrap.after.path = Str(WrapWorktree)

C14_Witness ==
    /\ WrapRegistered
    /\ wrap.tool = "Grep"
    /\ wrap.before.path = NonString
    /\ wrap.after.path = Str(WrapWorktree)

----------------------------------------------------------------------------
(* worktree.ts and git.ts: setupWorktree, one action per await              *)

\* A setupWorktree invocation. pc names the call it is awaiting; issued is
\* the set of Git Backend calls it has made, made what it has created.
\* found: what the repository held for the session when the call was made
NewSetup(sessionID, pc, result) ==
    [sessionID |-> sessionID, pc |-> pc, result |-> result, err |-> "",
     issued |-> {}, made |-> {},
     found |-> {r \in {"branch", "worktree"} :
                  \/ r = "branch" /\ Identities[sessionID].branchName \in branches
                  \/ r = "worktree" /\ WorktreePathOf(sessionID) \in worktrees}]

\* the WorktreeContext returned: worktreePath, and the names derived from
\* generateIdentity(sessionID)
Context(worktreePath, sessionID) ==
    [worktreePath |-> worktreePath,
     branchName |-> Identities[sessionID].branchName,
     userName |-> Identities[sessionID].userName,
     userEmail |-> Identities[sessionID].userEmail]

NoContext == [worktreePath |-> "", branchName |-> "", userName |-> "", userEmail |-> ""]

InFlight(i) == setups[i].pc \notin {"resolved", "rejected"}

BranchOf(i) == Identities[setups[i].sessionID].branchName

PathOf(i) == WorktreePathOf(setups[i].sessionID)

\* setupWorktree up to its first await: the registry check, then
\* ensureWorktreeDir's fs.mkdir
\* setupWorktree without the check for an existing entry
BeginSetup_NoCheck(sessionID) ==
    NewSetup(sessionID, "mkdir", NoContext)

BeginSetup(sessionID) ==
    LET existing == getSessionWorktree(worktreeMap, sessionID)
    IN IF ~Falsy(existing)
       THEN NewSetup(sessionID, "resolved", Context(existing.s, sessionID))
       ELSE NewSetup(sessionID, "mkdir", NoContext)

Reject(i, err) ==
    setups' = [setups EXCEPT ![i].pc = "rejected", ![i].err = err]

\* fs.mkdir(wtRoot, {recursive: true}) succeeds; fs.writeFile is called
MkdirDone(i) ==
    /\ setups[i].pc = "mkdir"
    /\ dirs' = dirs \cup {WorktreesDir}
    /\ setups' = [setups EXCEPT ![i].pc = "writeFile"]
    /\ UNCHANGED <<worktreeMap, branches, worktrees, gitignore, hooks,
                   worktreeSetupPromise, calls, wrap, faker, others>>

\* fs.mkdir rejects: ensureWorktreeDir and setupWorktree reject
MkdirFails(i) ==
    /\ setups[i].pc = "mkdir"
    /\ Reject(i, "mkdir")
    /\ UNCHANGED <<worktreeMap, branches, worktrees, dirs, gitignore, hooks,
                   worktreeSetupPromise, calls, wrap, faker, others>>

\* fs.writeFile(gitignorePath, "*\n", {flag: "wx"}).catch(() => undefined):
\* written only when the file is absent, failure swallowed; then
\* ensureBranchExists calls g.branchLocal()
WriteFileDone(i) ==
    /\ setups[i].pc = "writeFile"
    /\ \/ gitignore' = (IF gitignore = "absent" THEN "*\n" ELSE gitignore)
       \/ gitignore' = gitignore
    /\ setups' = [setups EXCEPT ![i].pc = "branchLocal",
                                ![i].issued = @ \cup {"branchLocal"}]
    /\ UNCHANGED <<worktreeMap, branches, worktrees, dirs, hooks,
                   worktreeSetupPromise, calls, wrap, faker, others>>

\* g.branch([branch]) called whether the branch is listed or not
BranchLocalDone_AlwaysCreate(i) ==
    /\ setups[i].pc = "branchLocal"
    /\ setups' = [setups EXCEPT ![i].pc = "branch",
                                ![i].issued = @ \cup {"branch"}]
    /\ UNCHANGED <<worktreeMap, branches, worktrees, dirs, gitignore, hooks,
                   worktreeSetupPromise, calls, wrap, faker, others>>

\* g.branchLocal() answers: g.branch([branch]) when the branch is not listed,
\* else worktreeExists -> listWorktrees
BranchLocalDone(i) ==
    /\ setups[i].pc = "branchLocal"
    /\ IF BranchOf(i) \in branches
       THEN setups' = [setups EXCEPT ![i].pc = "worktreeList",
                                     ![i].issued = @ \cup {"worktreeList"}]
       ELSE setups' = [setups EXCEPT ![i].pc = "branch",
                                     ![i].issued = @ \cup {"branch"}]
    /\ UNCHANGED <<worktreeMap, branches, worktrees, dirs, gitignore, hooks,
                   worktreeSetupPromise, calls, wrap, faker, others>>

BranchLocalFails(i) ==
    /\ setups[i].pc = "branchLocal"
    /\ Reject(i, "branchLocal")
    /\ UNCHANGED <<worktreeMap, branches, worktrees, dirs, gitignore, hooks,
                   worktreeSetupPromise, calls, wrap, faker, others>>

\* git branch <name> creates the branch; then worktreeExists -> listWorktrees
BranchDone(i) ==
    /\ setups[i].pc = "branch"
    /\ BranchOf(i) \notin branches
    /\ branches' = branches \cup {BranchOf(i)}
    /\ setups' = [setups EXCEPT ![i].pc = "worktreeList",
                                ![i].issued = @ \cup {"worktreeList"},
                                ![i].made = @ \cup {"branch"}]
    /\ UNCHANGED <<worktreeMap, worktrees, dirs, gitignore, hooks,
                   worktreeSetupPromise, calls, wrap, faker, others>>

\* git branch fails (always when the branch exists by now)
BranchFails(i) ==
    /\ setups[i].pc = "branch"
    /\ Reject(i, "branch")
    /\ UNCHANGED <<worktreeMap, branches, worktrees, dirs, gitignore, hooks,
                   worktreeSetupPromise, calls, wrap, faker, others>>

\* setSessionWorktree and the return of setupWorktree
Register(i, created) ==
    /\ worktreeMap' = setSessionWorktree(worktreeMap, setups[i].sessionID, PathOf(i))
    /\ setups' = [setups EXCEPT ![i].pc = "resolved",
                                ![i].result = Context(PathOf(i), setups[i].sessionID),
                                ![i].made = @ \cup created \cup {"registry"}]

\* the session registered whatever git worktree list answers
WorktreeListDone_NoAdd(i) ==
    /\ setups[i].pc = "worktreeList"
    /\ Register(i, {})
    /\ UNCHANGED <<branches, worktrees, dirs, gitignore, hooks,
                   worktreeSetupPromise, calls, wrap, faker, others>>

\* git worktree list answers: the session is registered when the path is
\* listed, else worktreeAdd is called
WorktreeListDone(i) ==
    /\ setups[i].pc = "worktreeList"
    /\ IF PathOf(i) \in worktrees
       THEN Register(i, {})
       ELSE /\ setups' = [setups EXCEPT ![i].pc = "worktreeAdd",
                                        ![i].issued = @ \cup {"worktreeAdd"}]
            /\ UNCHANGED worktreeMap
    /\ UNCHANGED <<branches, worktrees, dirs, gitignore, hooks,
                   worktreeSetupPromise, calls, wrap, faker, others>>

\* git worktree list failed: listWorktrees returns [] although the worktree
\* is registered, and worktreeAdd is called
WorktreeListFails(i) ==
    /\ setups[i].pc = "worktreeList"
    /\ PathOf(i) \in worktrees
    /\ setups' = [setups EXCEPT ![i].pc = "worktreeAdd",
                                ![i].issued = @ \cup {"worktreeAdd"}]
    /\ UNCHANGED <<worktreeMap, branches, worktrees, dirs, gitignore, hooks,
                   worktreeSetupPromise, calls, wrap, faker, others>>

\* git worktree add <path> <branch> succeeds; the session is registered
WorktreeAddDone(i) ==
    /\ setups[i].pc = "worktreeAdd"
    /\ PathOf(i) \notin worktrees
    /\ worktrees' = worktrees \cup {PathOf(i)}
    /\ dirs' = dirs \cup {PathOf(i)}
    /\ Register(i, {"worktree"})
    /\ UNCHANGED <<branches, gitignore, hooks, worktreeSetupPromise, calls, wrap, faker, others>>

\* the session registered before git worktree add is known to have succeeded
WorktreeAddFails_Registered(i) ==
    /\ setups[i].pc = "worktreeAdd"
    /\ worktreeMap' = setSessionWorktree(worktreeMap, setups[i].sessionID, PathOf(i))
    /\ setups' = [setups EXCEPT ![i].pc = "rejected", ![i].err = "worktreeAdd",
                                ![i].made = @ \cup {"registry"}]
    /\ UNCHANGED <<branches, worktrees, dirs, gitignore, hooks,
                   worktreeSetupPromise, calls, wrap, faker, others>>

\* git worktree add fails (always when the path is registered by now)
WorktreeAddFails(i) ==
    /\ setups[i].pc = "worktreeAdd"
    /\ Reject(i, "worktreeAdd")
    /\ UNCHANGED <<worktreeMap, branches, worktrees, dirs, gitignore, hooks,
                   worktreeSetupPromise, calls, wrap, faker, others>>

SetupIds == 1..Len(setups)

SetupSucceeds ==
    \/ \E i \in SetupIds : MkdirDone(i)
    \/ \E i \in SetupIds : WriteFileDone(i)
    \/ \E i \in SetupIds : BranchLocalDone(i)
    \/ \E i \in SetupIds : BranchDone(i)
    \/ \E i \in SetupIds : WorktreeListDone(i)
    \/ \E i \in SetupIds : WorktreeAddDone(i)

SetupFails ==
    \/ \E i \in SetupIds : MkdirFails(i)
    \/ \E i \in SetupIds : BranchLocalFails(i)
    \/ \E i \in SetupIds : BranchFails(i)
    \/ \E i \in SetupIds : WorktreeListFails(i)
    \/ \E i \in SetupIds : WorktreeAddFails(i)

----------------------------------------------------------------------------
(* Callers of the exported functions (tests, other plugins)                 *)

\* setupWorktree(sessionID, rootDir, config) is called
SetupWorktreeCall(sessionID) ==
    /\ setups' = Append(setups, BeginSetup(sessionID))
    /\ faker' = generateIdentityOn(faker, sessionID).faker
    /\ UNCHANGED <<worktreeMap, branches, worktrees, dirs, gitignore, hooks,
                   worktreeSetupPromise, calls, wrap, others>>

\* a caller that awaits each call before it makes the next
SequentialCall ==
    /\ Len(setups) < MaxSeqCalls
    /\ \A i \in 1..Len(setups) : ~InFlight(i)
    /\ \E sessionID \in Sessions : SetupWorktreeCall(sessionID)

\* callers that do not wait for each other
ConcurrentCall ==
    /\ Len(setups) < MaxSetups
    /\ Cardinality({i \in 1..Len(setups) : InFlight(i)}) < MaxInFlight
    /\ \E sessionID \in Sessions : SetupWorktreeCall(sessionID)

ClearCall ==
    \E sessionID \in Sessions :
        /\ hasSessionWorktree(worktreeMap, sessionID)
        /\ worktreeMap' = clearSessionWorktree(worktreeMap, sessionID)
        /\ UNCHANGED <<branches, worktrees, dirs, gitignore, setups, hooks,
                       worktreeSetupPromise, calls, wrap, faker, others>>

----------------------------------------------------------------------------
(* The repository when the process starts                                   *)

BranchA == Identities["ses_a"].branchName

\* no agent branch or worktree yet; the container directory may hold a
\* .gitignore the user wrote
FreshRepo ==
    /\ branches = {}
    /\ worktrees = {}
    /\ \/ dirs = {} /\ gitignore = "absent"
       \/ dirs = {WorktreesDir} /\ gitignore \in {"absent", "node_modules\n"}

\* an earlier process provisioned ses_a, or failed after creating its branch
UsedRepo ==
    /\ branches = {BranchA}
    /\ gitignore = "*\n"
    /\ \/ /\ worktrees = {WorktreePathOf("ses_a")}
          /\ dirs = {WorktreesDir, WorktreePathOf("ses_a")}
       \/ /\ worktrees = {}
          /\ dirs = {WorktreesDir}

NoProcessState ==
    /\ worktreeMap = EmptyMap
    /\ setups = <<>>
    /\ hooks = "uninit"
    /\ worktreeSetupPromise = 0
    /\ calls = <<>>
    /\ wrap = NoWrap
    /\ OthersInit

\* setupWorktree called again and again in a fresh repository, Git Backend
\* not failing
InitSeq == FreshRepo /\ NoProcessState

NextSeq == SequentialCall \/ SetupSucceeds

SpecSeq == InitSeq /\ [][NextSeq]_vars

\* setupWorktree and clearSessionWorktree called in any order, Git Backend
\* calls may fail
InitLib == (FreshRepo \/ UsedRepo) /\ NoProcessState

NextLib == ConcurrentCall \/ ClearCall \/ SetupSucceeds \/ SetupFails

SpecLib == InitLib /\ [][NextLib]_vars

----------------------------------------------------------------------------
(* index.ts: AutoWorktreePlugin and its tool.execute.before hook            *)

HookSessions == Sessions \cup {""}

HookTools == {"read", "Bash", "task"}

HookArgs == {PathBag("/repo/src")}

\* isGitRepo(input.directory) answers; the hook is returned only inside a
\* git repository
PluginInit ==
    /\ hooks = "uninit"
    /\ \E inGitRepo \in BOOLEAN :
          hooks' = IF inGitRepo THEN "registered" ELSE "none"
    /\ UNCHANGED <<worktreeMap, branches, worktrees, dirs, gitignore, setups,
                   worktreeSetupPromise, calls, wrap, faker, others>>

NewCall(sessionID, tool, args, state) ==
    [sessionID |-> sessionID, tool |-> tool, args |-> args, state |-> state,
     out |-> args]

\* the hook without its allow-list return
Eligible_AnyTool(sessionID, tool) == sessionID # ""

\* the two early returns of the hook
Eligible(sessionID, tool) == sessionID # "" /\ shouldWrapTool(tool)

\* the plugin returned a tool.execute.before hook for the host to invoke
\* although the directory is not a git repository
HooksReturned_Always(h) == h \in {"registered", "none"}

\* the plugin returned a tool.execute.before hook for the host to invoke
HooksReturned(h) == h = "registered"

CanCall == HooksReturned(hooks) /\ Len(calls) < MaxCalls

\* the plugin returned {}: the host runs the tool with the args as supplied
\* and no code of the plugin runs
ToolCallUnhooked ==
    /\ hooks = "none"
    /\ Len(calls) < MaxCalls
    /\ \E sessionID \in HookSessions, tool \in HookTools, args \in HookArgs :
          calls' = Append(calls, NewCall(sessionID, tool, args, "unhooked"))
    /\ UNCHANGED <<worktreeMap, branches, worktrees, dirs, gitignore, setups,
                   hooks, worktreeSetupPromise, wrap, faker, others>>

\* a call without sessionID or of a tool that is not wrapped returns at once
HookIneligible ==
    /\ CanCall
    /\ \E sessionID \in HookSessions, tool \in HookTools, args \in HookArgs :
          /\ ~Eligible(sessionID, tool)
          /\ calls' = Append(calls, NewCall(sessionID, tool, args, "returned"))
    /\ UNCHANGED <<worktreeMap, branches, worktrees, dirs, gitignore, setups,
                   hooks, worktreeSetupPromise, wrap, faker, others>>

\* setupWorktree called by every eligible call, whatever worktreeSetupPromise
\* holds
HookFirst_NoCheck ==
    /\ CanCall
    /\ \E sessionID \in HookSessions, tool \in HookTools, args \in HookArgs :
          /\ Eligible(sessionID, tool)
          /\ setups' = Append(setups, BeginSetup(sessionID))
          /\ worktreeSetupPromise' = Len(setups) + 1
          /\ calls' = Append(calls, NewCall(sessionID, tool, args, "awaiting"))
          /\ faker' = generateIdentityOn(faker, sessionID).faker
    /\ UNCHANGED <<worktreeMap, branches, worktrees, dirs, gitignore, hooks, wrap, others>>

\* the first eligible call: worktreeSetupPromise is null, setupWorktree is
\* called and the hook awaits the promise. The test, the call (which runs
\* up to its first await) and the assignment are one synchronous run of the
\* hook
HookFirst ==
    /\ CanCall
    /\ worktreeSetupPromise = 0
    /\ \E sessionID \in HookSessions, tool \in HookTools, args \in HookArgs :
          /\ Eligible(sessionID, tool)
          /\ setups' = Append(setups, BeginSetup(sessionID))
          /\ worktreeSetupPromise' = Len(setups) + 1
          /\ calls' = Append(calls, NewCall(sessionID, tool, args, "awaiting"))
          /\ faker' = generateIdentityOn(faker, sessionID).faker
    /\ UNCHANGED <<worktreeMap, branches, worktrees, dirs, gitignore, hooks, wrap, others>>

\* a later eligible call starts provisioning anew when the promise that
\* exists wraps a setupWorktree that rejected
HookLater_Retry ==
    /\ CanCall
    /\ worktreeSetupPromise # 0
    /\ \E sessionID \in HookSessions, tool \in HookTools, args \in HookArgs :
          /\ Eligible(sessionID, tool)
          /\ calls' = Append(calls, NewCall(sessionID, tool, args, "awaiting"))
          /\ IF setups[worktreeSetupPromise].pc = "rejected"
             THEN /\ setups' = Append(setups, BeginSetup(sessionID))
                  /\ worktreeSetupPromise' = Len(setups) + 1
             ELSE UNCHANGED <<setups, worktreeSetupPromise>>
    /\ UNCHANGED <<worktreeMap, branches, worktrees, dirs, gitignore,
                   hooks, wrap, faker, others>>

\* a later eligible call awaits the promise that exists
HookLater ==
    /\ CanCall
    /\ worktreeSetupPromise # 0
    /\ \E sessionID \in HookSessions, tool \in HookTools, args \in HookArgs :
          /\ Eligible(sessionID, tool)
          /\ calls' = Append(calls, NewCall(sessionID, tool, args, "awaiting"))
    /\ UNCHANGED <<worktreeMap, branches, worktrees, dirs, gitignore, setups,
                   hooks, worktreeSetupPromise, wrap, faker, others>>

\* the promise kept in worktreeSetupPromise drops the result and logs a rejection
PromiseOutcome_NoCatch(setupPc) ==
    IF setupPc = "rejected" THEN "rejected" ELSE "fulfilled"

\* setupWorktree(...).then(() => undefined).catch(console.error):
\* fulfilled however setupWorktree settles
PromiseOutcome(setupPc) == "fulfilled"

\* the await on a promise whose setupWorktree has not settled resumes at once
Settled_NoAwait(i) == TRUE

\* await worktreeSetupPromise resumes once setupWorktree has settled
Settled(i) == ~InFlight(i)

\* await worktreeSetupPromise resumes; wrapToolArgs runs and the hook returns
HookResume(c) ==
    /\ calls[c].state = "awaiting"
    /\ Settled(worktreeSetupPromise)
    /\ IF PromiseOutcome(setups[worktreeSetupPromise].pc) = "rejected"
       THEN calls' = [calls EXCEPT ![c].state = "threw"]
       ELSE calls' = [calls EXCEPT ![c].state = "returned",
                                   ![c].out = wrapToolArgs(worktreeMap, calls[c].sessionID,
                                                 calls[c].tool, calls[c].args, RootDir)]
    /\ UNCHANGED <<worktreeMap, branches, worktrees, dirs, gitignore, setups,
                   hooks, worktreeSetupPromise, wrap, faker, others>>

Init == (FreshRepo \/ UsedRepo) /\ NoProcessState

Next ==
    \/ PluginInit
    \/ ToolCallUnhooked
    \/ HookIneligible
    \/ HookFirst
    \/ HookLater
    \/ \E c \in 1..Len(calls) : HookResume(c)
    \/ SetupSucceeds
    \/ SetupFails

Spec == Init /\ [][Next]_vars

----------------------------------------------------------------------------
(* Properties of setupWorktree called directly                              *)

SetupsOf(sessionID) == {i \in SetupIds : setups[i].sessionID = sessionID}

Resolved(i) == i \in SetupIds /\ setups[i].pc = "resolved"

Rejected(i) == i \in SetupIds /\ setups[i].pc = "rejected"

\* C1: setupWorktree called N >= 1 times one after another for a session,
\* Git Backend not failing: every call returns the same worktreePath and
\* branchName, one branch-create and one worktree-add are issued in total,
\* and every call after the first issues no Git Backend call.
C1_IdempotentProvisioning ==
    \A s \in Sessions :
        LET ids == SetupsOf(s)
        IN (\E i \in ids : Resolved(i)) =>
              /\ \A i, j \in ids :
                    (Resolved(i) /\ Resolved(j)) =>
                        /\ setups[i].result.worktreePath = setups[j].result.worktreePath
                        /\ setups[i].result.branchName = setups[j].result.branchName
                        /\ setups[i].result.worktreePath # ""
              /\ Cardinality({i \in ids : "branch" \in setups[i].issued}) = 1
              /\ Cardinality({i \in ids : "worktreeAdd" \in setups[i].issued}) = 1
              /\ \A i, j \in ids : j < i => (Resolved(i) /\ setups[i].issued = {})

C1_Witness ==
    /\ Len(setups) = MaxSeqCalls
    /\ \A i \in SetupIds : setups[i].sessionID = "ses_a" /\ Resolved(i)
    /\ "worktreeAdd" \in setups[1].issued

\* C6: when git branch or git worktree add fails, setupWorktree rejects with
\* that error, and the step that rejects leaves the Session Registry as it
\* was; the failed attempt has recorded no entry.
C6_ErrorPropagates ==
    [][\A i \in SetupIds :
          (setups[i].pc \in {"branch", "worktreeAdd"} /\ setups'[i].pc = "rejected") =>
              /\ setups'[i].err = setups[i].pc
              /\ worktreeMap' = worktreeMap
              /\ "registry" \notin setups'[i].made]_vars

C6_Witness ==
    \E i \in SetupIds :
        /\ Rejected(i)
        /\ setups[i].err = "worktreeAdd"
        /\ ~hasSessionWorktree(worktreeMap, setups[i].sessionID)

\* C7 (as claimed): a failed setupWorktree leaves nothing it created: no
\* registry entry, no new branch, no worktree registration.
C7_AllOrNothing ==
    \A i \in SetupIds :
        Rejected(i) => setups[i].made \cap {"registry", "branch", "worktree"} = {}

\* C7 (amended): a failed setupWorktree leaves no registry entry and no
\* worktree registration of its own; a branch it created before the failure
\* stays in the repository.
C7_NoEntryNoWorktree ==
    \A i \in SetupIds :
        Rejected(i) =>
            /\ setups[i].made \subseteq {"branch"}
            /\ "branch" \in setups[i].made => BranchOf(i) \in branches

C7_Witness ==
    \E i \in SetupIds :
        /\ Rejected(i)
        /\ setups[i].err = "worktreeAdd"
        /\ setups[i].made = {"branch"}
        /\ PathOf(i) \notin worktrees
        /\ ~hasSessionWorktree(worktreeMap, setups[i].sessionID)

----------------------------------------------------------------------------
(* Properties of the tool.execute.before hook, checked under Spec           *)

CallIds == 1..Len(calls)

EligibleCall(c) == Eligible(calls[c].sessionID, calls[c].tool)

Provisioning == worktreeSetupPromise # 0 /\ InFlight(worktreeSetupPromise)

\* C3 (as claimed): when the before-hook of an allow-listed call of any
\* session returns and provisioning did not fail, the registry has an entry
\* for the call's session and the call's arguments have been redirected.
C3_PerSessionProvisioning ==
    \A c \in CallIds :
        (/\ EligibleCall(c)
         /\ calls[c].state = "returned"
         /\ Resolved(worktreeSetupPromise)) =>
            /\ hasSessionWorktree(worktreeMap, calls[c].sessionID)
            /\ calls[c].out # calls[c].args

\* C4: while the provisioning started by the first call is pending, no
\* allow-listed call has returned or has had its arguments rewritten.
C4_RewriteAfterProvisioning ==
    \A c \in CallIds :
        (EligibleCall(c) /\ Provisioning) =>
            /\ calls[c].state = "awaiting"
            /\ calls[c].out = calls[c].args

C4_Witness ==
    /\ Len(calls) = 2
    /\ \A c \in CallIds : EligibleCall(c) /\ calls[c].state = "awaiting"
    /\ Provisioning
    /\ setups[worktreeSetupPromise].pc = "worktreeAdd"

\* C5: when provisioning has failed, the hook returns without throwing and
\* the call's arguments are exactly those the host supplied.
C5_FailOpen ==
    \A c \in CallIds :
        (/\ EligibleCall(c)
         /\ calls[c].state # "awaiting"
         /\ Rejected(worktreeSetupPromise)) =>
            /\ calls[c].state = "returned"
            /\ calls[c].out = calls[c].args

C5_Witness ==
    \E c \in CallIds :
        /\ EligibleCall(c)
        /\ calls[c].state = "returned"
        /\ Rejected(worktreeSetupPromise)
        /\ setups[worktreeSetupPromise].err = "worktreeAdd"
        /\ calls[c].out = PathBag("/repo/src")

\* C17: when the repository check at plugin start reports that the directory
\* is not a git repository, no hook is registered: tool calls pass with the
\* args as supplied, setupWorktree is never invoked, no Git Backend or
\* filesystem mutation is made, and the registry stays empty.
C17_InertOutsideGit ==
    /\ [](hooks = "none" =>
             /\ setups = <<>>
             /\ worktreeSetupPromise = 0
             /\ worktreeMap = EmptyMap
             /\ \A c \in CallIds :
                   calls[c].state = "unhooked" /\ calls[c].out = calls[c].args)
    /\ [][hooks = "none" =>
             /\ hooks' = "none"
             /\ UNCHANGED <<worktreeMap, branches, worktrees, dirs, gitignore,
                            setups, worktreeSetupPromise>>]_vars

C17_Witness ==
    /\ hooks = "none"
    /\ Len(calls) = MaxCalls
    /\ calls[1].sessionID = "ses_a"
    /\ calls[1].tool = "Bash"
    /\ calls[2].sessionID = "ses_b"
    /\ calls[2].tool = "read"
    /\ setups = <<>>
    /\ worktreeMap = EmptyMap

----------------------------------------------------------------------------
(* session.ts called directly: any sequence of setSessionWorktree and       *)
(* clearSessionWorktree (SpecRegistry)                                      *)

RegistryTokens == Sessions \cup {""}

RegistryPaths == {WorktreePathOf("ses_a"), WorktreePathOf("ses_b"), "/path/one", ""}

RegistryFrame ==
    UNCHANGED <<branches, worktrees, dirs, gitignore, setups, hooks,
                worktreeSetupPromise, calls, wrap, faker, idLog, narration,
                dynsym, bashwrapper>>

RegistrySet ==
    /\ Len(regLog) < MaxRegOps
    /\ \E t \in RegistryTokens, p \in RegistryPaths :
          /\ worktreeMap' = setSessionWorktree(worktreeMap, t, p)
          /\ regLog' = Append(regLog, [op |-> "set", token |-> t, path |-> p])
    /\ RegistryFrame

RegistryClear ==
    /\ Len(regLog) < MaxRegOps
    /\ \E t \in RegistryTokens :
          /\ worktreeMap' = clearSessionWorktree(worktreeMap, t)
          /\ regLog' = Append(regLog, [op |-> "clear", token |-> t, path |-> ""])
    /\ RegistryFrame

InitRegistry == FreshRepo /\ NoProcessState

NextRegistry == RegistrySet \/ RegistryClear

SpecRegistry == InitRegistry /\ [][NextRegistry]_vars

\* what the calls of the log leave for token t: the path of the latest set
\* of t when no clear of t came after it, nothing otherwise
RECURSIVE LastSet(_, _)
LastSet(log, t) ==
    IF log = <<>> THEN Undefined
    ELSE LET last == log[Len(log)]
         IN IF last.token = t
            THEN IF last.op = "set" THEN Str(last.path) ELSE Undefined
            ELSE LastSet(SubSeq(log, 1, Len(log) - 1), t)

\* C15: the registry behaves as a map. After any sequence of set and clear
\* calls, get(t) is the path of the most recent set(t, p) not followed by
\* clear(t) and is absent otherwise, and has(t) is true exactly when get(t)
\* is present; clear of an unknown token changes nothing; a call on one
\* token changes neither get nor has of any other token.
C15_RegistryIsMap ==
    /\ [](\A t \in RegistryTokens :
             /\ getSessionWorktree(worktreeMap, t) = LastSet(regLog, t)
             /\ hasSessionWorktree(worktreeMap, t)
                   <=> IsString(getSessionWorktree(worktreeMap, t)))
    /\ [][LET call == regLog'[Len(regLog')]
          IN /\ Len(regLog') = Len(regLog) + 1
             /\ (call.op = "clear" /\ ~hasSessionWorktree(worktreeMap, call.token))
                   => worktreeMap' = worktreeMap
             /\ \A u \in RegistryTokens \ {call.token} :
                   /\ getSessionWorktree(worktreeMap', u)
                        = getSessionWorktree(worktreeMap, u)
                   /\ hasSessionWorktree(worktreeMap', u)
                        <=> hasSessionWorktree(worktreeMap, u)]_vars

\* set, overwrite and clear of one token while another keeps its entry
C15_Witness ==
    /\ regLog = <<[op |-> "set", token |-> "ses_b", path |-> "/path/one"],
                  [op |-> "set", token |-> "ses_a", path |-> ""],
                  [op |-> "clear", token |-> "ses_a", path |-> ""]>>
    /\ getSessionWorktree(worktreeMap, "ses_a") = Undefined
    /\ ~hasSessionWorktree(worktreeMap, "ses_a")
    /\ getSessionWorktree(worktreeMap, "ses_b") = Str("/path/one")

----------------------------------------------------------------------------
(* identity.ts called directly: generateIdentity for any tokens in any      *)
(* order (SpecIdentity)                                                     *)

IdentityTokens == Sessions \cup {""}

GenerateIdentityCall ==
    /\ Len(idLog) < MaxIdCalls
    /\ \E t \in IdentityTokens :
          LET r == generateIdentityOn(faker, t)
          IN /\ idLog' = Append(idLog, [token |-> t, identity |-> r.identity])
             /\ faker' = r.faker
    /\ UNCHANGED <<worktreeMap, branches, worktrees, dirs, gitignore, setups,
                   hooks, worktreeSetupPromise, calls, wrap, regLog, narration,
                   dynsym, bashwrapper>>

InitIdentity == FreshRepo /\ NoProcessState

NextIdentity == GenerateIdentityCall

SpecIdentity == InitIdentity /\ [][NextIdentity]_vars

IdentityFields == {"hash", "middleName", "userName", "userEmail", "branchName"}

\* C18: generateIdentity(s) yields field-for-field identical results (hash,
\* middleName, userName, userEmail, branchName) on every call with the same
\* token s, also when calls for other tokens are made in between.
C18_IdentityDeterminism ==
    \A i, j \in 1..Len(idLog) :
        idLog[i].token = idLog[j].token =>
            /\ DOMAIN idLog[i].identity = IdentityFields
            /\ \A f \in IdentityFields : idLog[i].identity[f] = idLog[j].identity[f]
            /\ idLog[i].identity = generateIdentity(idLog[i].token)

\* ses_a, then ses_b, then ses_a again
C18_Witness ==
    /\ Len(idLog) >= 3
    /\ idLog[1].token = "ses_a"
    /\ idLog[2].token = "ses_b"
    /\ idLog[3].token = "ses_a"
    /\ idLog[1].identity.branchName = "auto-worktree/reagan-1aa5bf90"
    /\ idLog[3].identity = idLog[1].identity
    /\ idLog[2].identity.userName = "Quinn"

----------------------------------------------------------------------------
(* The ignore marker of the worktrees directory, checked under SpecLib      *)

\* C16 (as claimed): after a successful setupWorktree the marker file
\* exists; a step that finds it absent leaves it absent or writes exactly
\* "*\n"; a step that finds it present leaves its content unchanged, for any
\* number of setupWorktree calls of any sessions.
C16_IgnoreMarker ==
    /\ [](\A i \in SetupIds : Resolved(i) => gitignore # "absent")
    /\ [][/\ gitignore = "absent" => gitignore' \in {"absent", "*\n"}
          /\ gitignore # "absent" => gitignore' = gitignore]_vars

----------------------------------------------------------------------------
(* git-narration: String and path helpers of the write and edit tools       *)

\* String.prototype.indexOf(sub, from) as a position counted from 1, 0 when
\* sub does not occur at or after position i
RECURSIVE IndexFrom(_, _, _)
IndexFrom(s, sub, i) ==
    IF i + Len(sub) - 1 > Len(s) THEN 0
    ELSE IF SubSeq(s, i, i + Len(sub) - 1) = sub THEN i
    ELSE IndexFrom(s, sub, i + 1)

\* current.split(oldString).join(newString), oldString not empty
RECURSIVE SplitJoin(_, _, _)
SplitJoin(s, oldString, newString) ==
    LET i == IndexFrom(s, oldString, 1)
    IN IF i = 0 THEN s
       ELSE SubSeq(s, 1, i - 1) \o newString
              \o SplitJoin(SubSeq(s, i + Len(oldString), Len(s)), oldString, newString)

\* path.dirname of a path without trailing separator
dirname(p) ==
    LET segs == Split(p)
    IN IF Len(segs) = 1 THEN "."
       ELSE IF Len(segs) = 2 /\ segs[1] = "" THEN "/"
       ELSE JoinSegs(SubSeq(segs, 1, Len(segs) - 1))

\* path.basename of a path without trailing separator
basename(p) == LET segs == Split(p) IN segs[Len(segs)]

\* the directory exists in the tree w
DirExists(w, d) ==
    \/ d \in {"/", "/repo", "/tmp"}
    \/ \E p \in NarrPaths : w[p] # Undefined /\ Inside(d, dirname(p))

\* getGitRoot(cwd): git rev-parse --show-toplevel run in cwd; null when cwd
\* does not exist or no repository holds it
getGitRoot(w, cwd) ==
    IF DirExists(w, cwd) /\ Inside(RootDir, cwd) THEN Str(RootDir) ELSE Null

----------------------------------------------------------------------------
(* git-narration: createWriteTool and createEditTool                        *)

\* the strict-mode test left out
StrictNoRepo_Ignored(cfg, gitRoot) == FALSE

\* if (config.strictCommit && !gitRoot) throw
StrictNoRepo(cfg, gitRoot) == cfg.strictCommit /\ Falsy(gitRoot)

\* relativePath and fullPath of a tool call
RelativePath(gitRoot, filePath) ==
    IF ~Falsy(gitRoot) THEN relative(gitRoot.s, filePath) ELSE basename(filePath)

FullPath(gitRoot, filePath) ==
    IF ~Falsy(gitRoot) THEN join(gitRoot.s, RelativePath(gitRoot, filePath)) ELSE filePath

\* the value of `updated` in the edit tool, Null when the closure throws
EditUpdated(current, oldString, newString, replaceAll) ==
    IF replaceAll
    THEN LET replaced == SplitJoin(current, oldString, newString)
         IN IF replaced = current THEN Null ELSE Str(replaced)
    ELSE LET index == IndexFrom(current, oldString, 1)
         IN IF index = 0 THEN Null
            ELSE IF IndexFrom(current, oldString, index + 1) # 0 THEN Null
            ELSE Str(SubSeq(current, 1, index - 1) \o newString
                       \o SubSeq(current, index + Len(oldString), Len(current)))

WriteContents == {"new\n"}

EditPairs == {<<"hello", "goodbye">>, <<"l", "L">>}

Descriptions == {Str("Add file"), Str(" "), Undefined}

ToolCall(tool, filePath, args) ==
    [tool |-> tool, filePath |-> filePath, args |-> args,
     before |-> work[filePath], after |-> work[filePath],
     outcome |-> "threw", error |-> "", commits |-> 0]

\* the tool throws; what it wrote before stays written
Throws(call, error, written) ==
    /\ toolLog' = Append(toolLog, [call EXCEPT !.error = error,
                                               !.after = written[call.filePath]])
    /\ work' = written
    /\ UNCHANGED head

ToolFrame ==
    UNCHANGED <<worktreeMap, branches, worktrees, dirs, gitignore, setups, hooks,
                worktreeSetupPromise, calls, wrap, faker, regLog, idLog, narrConfig, snapshots, bashLog,
                dynsym, bashwrapper>>

\* the part of execute after the file is written: commitFile when there is
\* a repository and a description, then the output or the strict-mode throw.
\* git commit can fail; it cannot succeed when the file is as in HEAD.
CommitOrNot(call, gitRoot, fullPath, description, written) ==
    IF ~Falsy(gitRoot) /\ IsString(description) /\ TrimNonEmpty(description.s)
    THEN \/ /\ written[fullPath] # head[fullPath]
            /\ toolLog' = Append(toolLog, [call EXCEPT !.outcome = "returned",
                                                       !.after = written[call.filePath],
                                                       !.commits = 1])
            /\ work' = written
            /\ head' = [head EXCEPT ![fullPath] = written[fullPath]]
         \/ IF narrConfig.strictCommit
            THEN Throws(call, "Commit failed", written)
            ELSE /\ toolLog' = Append(toolLog, [call EXCEPT !.outcome = "returned",
                                                            !.after = written[call.filePath]])
                 /\ work' = written
                 /\ UNCHANGED head
    ELSE /\ toolLog' = Append(toolLog, [call EXCEPT !.outcome = "returned",
                                                    !.after = written[call.filePath]])
         /\ work' = written
         /\ UNCHANGED head

\* createWriteTool(config).execute
WriteTool ==
    /\ Len(toolLog) < MaxToolCalls
    /\ \E filePath \in NarrPaths, content \in WriteContents, description \in Descriptions :
          LET call == ToolCall("write", filePath, [content |-> content])
              gitRoot == getGitRoot(work, dirname(filePath))
              fullPath == FullPath(gitRoot, filePath)
          IN IF StrictNoRepo(narrConfig, gitRoot)
             THEN Throws(call, "Not in a git repository", work)
             ELSE CommitOrNot(call, gitRoot, fullPath, description,
                              [work EXCEPT ![fullPath] = Str(content)])
    /\ ToolFrame

\* createEditTool(config).execute
EditTool ==
    /\ Len(toolLog) < MaxToolCalls
    /\ \E filePath \in NarrPaths, pair \in EditPairs, replaceAll \in BOOLEAN,
          description \in Descriptions :
          LET call == ToolCall("edit", filePath,
                               [oldString |-> pair[1], newString |-> pair[2],
                                replaceAll |-> replaceAll])
              gitRoot == getGitRoot(work, dirname(filePath))
              fullPath == FullPath(gitRoot, filePath)
              current == work[fullPath]
              updated == EditUpdated(current.s, pair[1], pair[2], replaceAll)
          IN IF StrictNoRepo(narrConfig, gitRoot)
             THEN Throws(call, "Not in a git repository", work)
             ELSE IF current = Undefined
             THEN Throws(call, "ENOENT", work)
             ELSE IF updated = Null
             THEN Throws(call, "oldString", work)
             ELSE CommitOrNot(call, gitRoot, fullPath, description,
                              [work EXCEPT ![fullPath] = updated])
    /\ ToolFrame

InitNarrate ==
    /\ worktreeMap = EmptyMap
    /\ FreshRepo
    /\ dirs = {}
    /\ setups = <<>>
    /\ hooks = "uninit"
    /\ worktreeSetupPromise = 0
    /\ calls = <<>>
    /\ wrap = NoWrap
    /\ faker = FakerUnseeded
    /\ regLog = <<>>
    /\ idLog = <<>>
    /\ narrConfig \in [strictCommit : BOOLEAN, trackBash : {TRUE}]
    /\ work \in {CleanTree, [CleanTree EXCEPT !["/tmp/out.txt"] = Str("hello\n")]}
    /\ head = CleanTree
    /\ toolLog = <<>>
    /\ snapshots = NoSnapshots
    /\ bashLog = <<>>
    /\ DynSymIdle
    /\ BashWrapperIdle

NextNarrate == WriteTool \/ EditTool

SpecNarrate == InitNarrate /\ [][NextNarrate]_vars

----------------------------------------------------------------------------
(* Properties of the write and edit tools, checked under SpecNarrate        *)

\* the path lies in no git repository
OutsideRepo(p) == ~Inside(RootDir, p)

\* the places of s where sub stands
Occurrences(s, sub) ==
    {i \in 1..Len(s) : i + Len(sub) - 1 <= Len(s) /\ SubSeq(s, i, i + Len(sub) - 1) = sub}

\* a write, or an edit whose file exists and holds oldString once (any
\* number of times with replaceAll)
Applicable(c) ==
    \/ c.tool = "write"
    \/ /\ IsString(c.before)
       /\ LET n == Cardinality(Occurrences(c.before.s, c.args.oldString))
          IN IF c.args.replaceAll THEN n >= 1 ELSE n = 1

\* C19: for a file path that is not inside a git repository, with
\* strictCommit true the write tool and the edit tool throw and the target
\* file is neither created nor modified; with strictCommit false the same
\* call (for edit: one whose oldString is found) writes the file, makes no
\* commit and does not throw.
C19_StrictMode ==
    \A i \in 1..Len(toolLog) :
        LET c == toolLog[i]
        IN OutsideRepo(c.filePath) =>
              /\ head[c.filePath] = Undefined
              /\ narrConfig.strictCommit =>
                    /\ c.outcome = "threw"
                    /\ c.after = c.before
              /\ (~narrConfig.strictCommit /\ Applicable(c)) =>
                    /\ c.outcome = "returned"
                    /\ c.commits = 0
                    /\ c.tool = "write" => c.after = Str(c.args.content)
                    /\ c.tool = "edit" => IsString(c.after) /\ c.after # c.before

\* strict mode: a write of a new file and an edit of an existing one, both
\* outside the repository, have thrown and left the tree as it was
C19_Witness ==
    /\ narrConfig.strictCommit
    /\ Len(toolLog) = 2
    /\ toolLog[1].tool = "edit" /\ toolLog[1].filePath = "/tmp/out.txt"
    /\ toolLog[1].before = Str("hello\n") /\ toolLog[1].args.oldString = "hello"
    /\ toolLog[1].outcome = "threw" /\ toolLog[1].error = "Not in a git repository"
    /\ toolLog[2].tool = "write" /\ toolLog[2].filePath = "/tmp/out.txt"
    /\ toolLog[2].outcome = "threw"
    /\ work["/tmp/out.txt"] = Str("hello\n")

\* lenient mode: the same edit has been made without a commit
C19_LenientReached ==
    /\ ~narrConfig.strictCommit
    /\ Len(toolLog) >= 1
    /\ toolLog[1].tool = "edit" /\ toolLog[1].filePath = "/tmp/out.txt"
    /\ toolLog[1].outcome = "returned" /\ toolLog[1].commits = 0
    /\ work["/tmp/out.txt"] = Str("goodbye\n")

----------------------------------------------------------------------------
(* git-narration: bash tracking (bash-tracking.ts and the two hooks)        *)

RepoPaths == {p \in NarrPaths : Inside(RootDir, p)}

\* repo.status() for commit h and working tree w, nothing staged: the lists
\* of simple-git's StatusResult that findChangedFiles reads
StatusOf(h, w) ==
    [modified |-> {p \in RepoPaths : h[p] # Undefined /\ w[p] # Undefined /\ h[p] # w[p]},
     deleted |-> {p \in RepoPaths : h[p] # Undefined /\ w[p] = Undefined},
     not_added |-> {p \in RepoPaths : h[p] = Undefined /\ w[p] # Undefined},
     created |-> {},
     staged |-> {}]

\* the files that are in a list of the status after and were not in the
\* same list before
findChangedFiles(before, after) ==
    (after.modified \ before.modified)
      \cup (after.created \ before.created)
      \cup (after.deleted \ before.deleted)
      \cup (after.not_added \ before.not_added)

\* details.callID of the bash calls, in the order they are made
BashCallIDs == <<"call_1", "call_2", "call_3", "call_4">>

BashDescriptions == {Str("Run the build"), Undefined}

BashWorkdirs == {Str("/repo"), Str("/tmp"), Undefined}

\* what a command can leave in a file
BashContents == {Undefined, Str("hello\n"), Str("built\n")}

BashIdle == IF bashLog = <<>> THEN TRUE ELSE bashLog[Len(bashLog)].phase = "after"

BashFrame ==
    UNCHANGED <<worktreeMap, branches, worktrees, dirs, gitignore, setups, hooks,
                worktreeSetupPromise, calls, wrap, faker, regLog, idLog,
                narrConfig, toolLog, dynsym, bashwrapper>>

\* the map with the snapshot of callID left in it
DeleteSnapshot_Keep(snaps, callID) == snaps

\* snapshots.delete(callID)
DeleteSnapshot(snaps, callID) == [c \in DOMAIN snaps \ {callID} |-> snaps[c]]

\* tool.execute.before for a bash call: captureBeforeBash stores the status
\* when bash tracking is on, the call has a description and its workdir is
\* in a repository
BashBefore ==
    /\ BashIdle
    /\ Len(bashLog) < MaxBashCalls
    /\ \E description \in BashDescriptions, argWorkdir \in BashWorkdirs :
          LET callID == BashCallIDs[Len(bashLog) + 1]
              workdir == IF Falsy(argWorkdir) THEN RootDir ELSE argWorkdir.s
              root == getGitRoot(work, workdir)
              tracked == narrConfig.trackBash /\ ~Falsy(description) /\ ~Falsy(root)
          IN /\ snapshots' =
                   IF tracked
                   THEN [c \in DOMAIN snapshots \cup {callID} |->
                           IF c = callID
                           THEN [root |-> root.s, status |-> StatusOf(head, work),
                                 description |-> description.s, workdir |-> workdir]
                           ELSE snapshots[c]]
                   ELSE snapshots
             /\ bashLog' = Append(bashLog,
                   [callID |-> callID, phase |-> "before", tracked |-> tracked,
                    touched |-> {}, result |-> "none", files |-> {},
                    cleared |-> FALSE, again |-> "none"])
    /\ UNCHANGED <<work, head>>
    /\ BashFrame

\* the command runs and creates, modifies or deletes files of the repository
BashRuns ==
    /\ bashLog # <<>>
    /\ bashLog[Len(bashLog)].phase = "before"
    /\ \E tree \in [RepoPaths -> BashContents] :
          LET next == [p \in NarrPaths |-> IF p \in RepoPaths THEN tree[p] ELSE work[p]]
          IN /\ work' = next
             /\ bashLog' = [bashLog EXCEPT
                   ![Len(bashLog)].phase = "ran",
                   ![Len(bashLog)].touched = {p \in NarrPaths : next[p] # work[p]}]
    /\ UNCHANGED <<head, snapshots>>
    /\ BashFrame

\* tool.execute.after for the bash call: commitAfterBash takes the snapshot,
\* stages and commits the files findChangedFiles returns; a failing git call
\* is swallowed and null returned
BashAfter ==
    /\ bashLog # <<>>
    /\ bashLog[Len(bashLog)].phase = "ran"
    /\ LET n == Len(bashLog)
           callID == bashLog[n].callID
       IN IF callID \notin DOMAIN snapshots
          THEN /\ bashLog' = [bashLog EXCEPT ![n].phase = "after", ![n].result = "no snapshot"]
               /\ UNCHANGED <<head, snapshots>>
          ELSE LET snapshot == snapshots[callID]
                   changedFiles == findChangedFiles(snapshot.status, StatusOf(head, work))
               IN /\ snapshots' = DeleteSnapshot(snapshots, callID)
                  /\ IF changedFiles = {}
                     THEN /\ bashLog' = [bashLog EXCEPT ![n].phase = "after",
                                                        ![n].result = "nothing changed"]
                          /\ UNCHANGED head
                     ELSE \/ /\ head' = [p \in NarrPaths |->
                                           IF p \in changedFiles THEN work[p] ELSE head[p]]
                             /\ bashLog' = [bashLog EXCEPT ![n].phase = "after",
                                                           ![n].result = "committed",
                                                           ![n].files = changedFiles]
                          \/ /\ bashLog' = [bashLog EXCEPT ![n].phase = "after",
                                                           ![n].result = "commit failed"]
                             /\ UNCHANGED head
    /\ UNCHANGED work
    /\ BashFrame

\* a.txt committed; it and c.txt as the user or an earlier tool left them
InitBash ==
    /\ worktreeMap = EmptyMap
    /\ FreshRepo
    /\ dirs = {}
    /\ setups = <<>>
    /\ hooks = "uninit"
    /\ worktreeSetupPromise = 0
    /\ calls = <<>>
    /\ wrap = NoWrap
    /\ faker = FakerUnseeded
    /\ regLog = <<>>
    /\ idLog = <<>>
    /\ narrConfig \in [strictCommit : {FALSE}, trackBash : BOOLEAN]
    /\ head = CleanTree
    /\ work \in {CleanTree,
                  [CleanTree EXCEPT !["/repo/a.txt"] = Str("edited\n")],
                  [CleanTree EXCEPT !["/repo/new/c.txt"] = Str("draft\n")]}
    /\ toolLog = <<>>
    /\ snapshots = NoSnapshots
    /\ bashLog = <<>>
    /\ DynSymIdle
    /\ BashWrapperIdle

NextBash == BashBefore \/ BashRuns \/ BashAfter

----
(* Further calls of the exported functions: clearSnapshot before the after  *)
(* hook, and commitAfterBash once more for a call whose after hook has run  *)

\* clearSnapshot(callID) for the call in progress
ClearSnapshotCall ==
    /\ bashLog # <<>>
    /\ bashLog[Len(bashLog)].phase \in {"before", "ran"}
    /\ ~bashLog[Len(bashLog)].cleared
    /\ snapshots' = DeleteSnapshot(snapshots, bashLog[Len(bashLog)].callID)
    /\ bashLog' = [bashLog EXCEPT ![Len(bashLog)].cleared = TRUE]
    /\ UNCHANGED <<work, head>>
    /\ BashFrame

\* commitAfterBash(callID, config) called again for the n-th call
CommitAfterBashAgain(n) ==
    /\ bashLog[n].phase = "after"
    /\ bashLog[n].again = "none"
    /\ LET callID == bashLog[n].callID
       IN IF callID \notin DOMAIN snapshots
          THEN /\ bashLog' = [bashLog EXCEPT ![n].again = "null"]
               /\ UNCHANGED <<head, snapshots>>
          ELSE LET snapshot == snapshots[callID]
                   changedFiles == findChangedFiles(snapshot.status, StatusOf(head, work))
               IN /\ snapshots' = DeleteSnapshot(snapshots, callID)
                  /\ IF changedFiles = {}
                     THEN /\ bashLog' = [bashLog EXCEPT ![n].again = "null"]
                          /\ UNCHANGED head
                     ELSE \/ /\ head' = [p \in NarrPaths |->
                                           IF p \in changedFiles THEN work[p] ELSE head[p]]
                             /\ bashLog' = [bashLog EXCEPT ![n].again = "committed"]
                          \/ /\ bashLog' = [bashLog EXCEPT ![n].again = "null"]
                             /\ UNCHANGED head
    /\ UNCHANGED work
    /\ BashFrame

NextSnapshots ==
    \/ BashBefore
    \/ BashRuns
    \/ BashAfter
    \/ ClearSnapshotCall
    \/ \E n \in 1..Len(bashLog) : CommitAfterBashAgain(n)

SpecSnapshots == InitBash /\ [][NextSnapshots]_vars

----
(* Claim C27                                                                *)

\* C27: a commit is made by commitAfterBash only for a call whose snapshot
\* captureBeforeBash stored and clearSnapshot did not remove; once
\* commitAfterBash has returned for a call (with a commit, with null or
\* after a failed commit) the map holds no snapshot for its callID, and a
\* second commitAfterBash for the callID returns null and leaves HEAD as it
\* is.
C27_SnapshotConsumedOnce ==
    /\ [](\A n \in 1..Len(bashLog) :
             /\ bashLog[n].result = "committed" =>
                   bashLog[n].tracked /\ ~bashLog[n].cleared
             /\ bashLog[n].phase = "after" => bashLog[n].callID \notin DOMAIN snapshots
             /\ bashLog[n].again \in {"none", "null"})
    /\ [][\A n \in 1..Len(bashLog) :
             bashLog'[n].again # bashLog[n].again => head' = head]_vars

\* the commit of a tracked call failed, the files it changed still differ
\* from HEAD, and commitAfterBash called again for it returned null
C27_Witness ==
    \E n \in 1..Len(bashLog) :
        /\ bashLog[n].tracked
        /\ bashLog[n].result = "commit failed"
        /\ bashLog[n].again = "null"
        /\ \E p \in bashLog[n].touched : head[p] # work[p]

\* a snapshot removed by clearSnapshot: the after hook commits nothing
\* although the command changed a file
C27_ClearedReached ==
    \E n \in 1..Len(bashLog) :
        /\ bashLog[n].tracked
        /\ bashLog[n].cleared
        /\ bashLog[n].result = "no snapshot"
        /\ bashLog[n].touched # {}

SpecBash == InitBash /\ [][NextBash]_vars

\* C20 (as claimed): when the after hook of a bash call with a snapshot has
\* run and git did not fail, every file the command created, modified or
\* deleted since the snapshot is committed as the command left it: the
\* commit and the working tree agree on it, also for a file the snapshot
\* already listed as modified or untracked.
C20_BashCommitsChanges ==
    \A n \in 1..Len(bashLog) :
        (/\ n = Len(bashLog)
         /\ bashLog[n].phase = "after"
         /\ bashLog[n].tracked
         /\ bashLog[n].result # "commit failed") =>
            \A p \in bashLog[n].touched : head[p] = work[p]


----------------------------------------------------------------------------
(* Claim C29                                                                *)

\* the step registers session s: the registry gains an entry for s or the
\* entry of s changes
Registers(s) ==
    /\ hasSessionWorktree(worktreeMap', s)
    /\ getSessionWorktree(worktreeMap', s) # getSessionWorktree(worktreeMap, s)

\* C29: registry entries refer to provisioned worktrees. Whenever the
\* registry maps session s to path p, the branch of s exists and a worktree
\* is registered at p; and an entry is written only by a setupWorktree
\* invocation of s that has been through the branch check (and creation,
\* when needed) and is returning from the worktree check or the worktree
\* addition, whatever the interleaving of the invocations.
C29_EntriesProvisioned ==
    /\ [](\A s \in DOMAIN worktreeMap :
             /\ worktreeMap[s] = WorktreePathOf(s)
             /\ Identities[s].branchName \in branches
             /\ worktreeMap[s] \in worktrees)
    /\ [][\A s \in Sessions :
             Registers(s) =>
                \E i \in SetupIds :
                    /\ setups[i].sessionID = s
                    /\ setups[i].pc \in {"worktreeList", "worktreeAdd"}
                    /\ {"branchLocal", "worktreeList"} \subseteq setups[i].issued
                    /\ setups'[i].pc = "resolved"
                    /\ BranchOf(i) \in branches'
                    /\ PathOf(i) \in worktrees']_vars

\* two invocations of one session overlapped: one added the worktree and
\* registered the session, the other was refused by git worktree add
C29_Witness ==
    \E i, j \in SetupIds :
        /\ i # j
        /\ setups[i].sessionID = setups[j].sessionID
        /\ Resolved(i)
        /\ setups[i].made = {"branch", "worktree", "registry"}
        /\ Rejected(j)
        /\ setups[j].err = "worktreeAdd"
        /\ getSessionWorktree(worktreeMap, setups[i].sessionID) = Str(PathOf(i))
        /\ BranchOf(i) \in branches
        /\ PathOf(i) \in worktrees

\* invocations of two sessions overlapped and both sessions are registered
C29_TwoSessionsReached ==
    /\ DOMAIN worktreeMap = Sessions
    /\ \A i \in SetupIds : Resolved(i) /\ "worktree" \in setups[i].made
    /\ Len(setups) = 2

----------------------------------------------------------------------------
(* Claim C30                                                                *)

\* tool.execute.before invocations whose details carry no sessionID or whose
\* tool is not on the allow-list
IneligibleCall(call) ==
    /\ call.state # "unhooked"
    /\ call.sessionID = "" \/ ~shouldWrapTool(call.tool)

\* C30: ineligible calls have no effect. The step in which the hook is
\* invoked for a call without sessionID, or for a tool off the allow-list,
\* creates no setup promise, starts no setupWorktree invocation (hence no
\* Git Backend call), writes nothing to the registry or the repository and
\* returns at once; and the args of such a call are never changed,
\* whatever came before it.
C30_IneligibleNoEffect ==
    /\ [](\A c \in 1..Len(calls) :
             IneligibleCall(calls[c]) =>
                /\ calls[c].state = "returned"
                /\ calls[c].out = calls[c].args)
    /\ [][(Len(calls') = Len(calls) + 1 /\ IneligibleCall(calls'[Len(calls')])) =>
             /\ worktreeSetupPromise' = worktreeSetupPromise
             /\ setups' = setups
             /\ worktreeMap' = worktreeMap
             /\ branches' = branches
             /\ worktrees' = worktrees
             /\ dirs' = dirs
             /\ gitignore' = gitignore]_vars

\* an ineligible call of a session made after the session was provisioned by
\* an eligible call with the same args: the eligible call's args were
\* rewritten, the ineligible call's were not
C30_Witness ==
    /\ Len(calls) = 2
    /\ calls[1].sessionID = "ses_a" /\ calls[1].tool = "read"
    /\ calls[1].state = "returned"
    /\ calls[1].out # calls[1].args
    /\ hasSessionWorktree(worktreeMap, "ses_a")
    /\ calls[2].sessionID = "ses_a" /\ calls[2].tool = "task"
    /\ calls[2].args = calls[1].args
    /\ calls[2].state = "returned"
    /\ calls[2].out = calls[2].args
    /\ Len(setups) = 1

\* an ineligible call made first, with no setup promise yet: none is created
C30_FirstCallReached ==
    /\ Len(calls) = 1
    /\ calls[1].sessionID = "" /\ calls[1].tool = "read"
    /\ calls[1].state = "returned"
    /\ worktreeSetupPromise = 0
    /\ setups = <<>>

----------------------------------------------------------------------------
(* Claim C23                                                                *)

\* setupWorktree invocations that went past the registry check while the
\* session's branch and worktree were already in the repository
Reprovisioning(i) ==
    /\ i \in SetupIds
    /\ setups[i].found = {"branch", "worktree"}
    /\ setups[i].issued # {}

\* C23: a setupWorktree call made without a registry entry for a session
\* whose branch and worktree already exist never issues a branch creation;
\* when it returns it has issued no worktree add either, has created
\* nothing, has recorded the entry, and returns the worktree path and the
\* branch name derived from the session as the original provisioning did.
\* No call creates a branch or adds a worktree that was there when it began.
C23_ReuseGitState ==
    \A i \in SetupIds :
        /\ setups[i].made \cap setups[i].found = {}
        /\ Reprovisioning(i) =>
              /\ "branch" \notin setups[i].issued
              /\ Resolved(i) =>
                    /\ "worktreeAdd" \notin setups[i].issued
                    /\ setups[i].made = {"registry"}
                    /\ setups[i].result.worktreePath
                          = WorktreePathOf(setups[i].sessionID)
                    /\ setups[i].result.branchName
                          = Identities[setups[i].sessionID].branchName

\* a session provisioned in this process, its entry cleared, and provisioned
\* again from the branch and worktree that were left
C23_Witness ==
    \E i, j \in SetupIds :
        /\ i < j
        /\ setups[i].sessionID = setups[j].sessionID
        /\ Resolved(i)
        /\ {"branch", "worktree"} \subseteq setups[i].made
        /\ Reprovisioning(j)
        /\ Resolved(j)
        /\ setups[j].result = setups[i].result
        /\ hasSessionWorktree(worktreeMap, setups[j].sessionID)

\* the same in a new process: the repository was provisioned by an earlier
\* one
C23_NewProcessReached ==
    \E j \in SetupIds :
        /\ Reprovisioning(j)
        /\ Resolved(j)
        /\ \A i \in SetupIds : setups[i].made \cap {"branch", "worktree"} = {}

----------------------------------------------------------------------------
(* Claim C24                                                                *)

\* calls of one session that are inside the hook at the same time, the
\* provisioning they wait for not yet settled
Simultaneous(c, d) ==
    /\ c \in CallIds /\ d \in CallIds /\ c # d
    /\ calls[c].sessionID = calls[d].sessionID
    /\ calls[c].state = "awaiting" /\ calls[d].state = "awaiting"
    /\ InFlight(worktreeSetupPromise)

\* C24 as claimed: while a call of a session is inside the hook waiting for
\* provisioning, a further call can observe that no setup promise exists
\* and start a provisioning sequence of its own.
C24_CheckThenActGap ==
    (/\ CanCall
     /\ \E c \in CallIds : calls[c].state = "awaiting"
     /\ InFlight(worktreeSetupPromise))
        => ENABLED HookFirst

\* C24 as the code has it: the hook tests and assigns worktreeSetupPromise
\* in one synchronous run, so a plugin instance starts at most one
\* setupWorktree invocation; calls that are inside the hook at the same
\* time wait for that one.
C24_SingleProvisioning ==
    /\ Len(setups) <= 1
    /\ \A c \in CallIds :
          calls[c].state = "awaiting" => worktreeSetupPromise = 1

\* two calls of one session inside the hook while the one provisioning
\* sequence is in flight
C24_Witness ==
    /\ \E c, d \in CallIds : Simultaneous(c, d)
    /\ Len(setups) = 1
    /\ setups[1].issued # {}

----------------------------------------------------------------------------
(* Claim C25                                                                *)

\* C25: once the setupWorktree started by the first eligible call has
\* rejected, it stays the only invocation: no step starts another, touches
\* the promise, the registry or the repository's branches and worktrees;
\* the registry has no entry and every call that has returned carries the
\* args the host supplied.
C25_NoIsolationAfterFailure ==
    /\ [](Rejected(worktreeSetupPromise) =>
             /\ Len(setups) = 1
             /\ worktreeMap = EmptyMap
             /\ \A c \in CallIds :
                   calls[c].state = "returned" => calls[c].out = calls[c].args)
    /\ [][Rejected(worktreeSetupPromise) =>
             /\ setups' = setups
             /\ worktreeSetupPromise' = worktreeSetupPromise
             /\ worktreeMap' = worktreeMap
             /\ branches' = branches
             /\ worktrees' = worktrees]_vars

\* provisioning failed while the first call waited; that call and a second
\* call of the same session have both returned with their args untouched
C25_Witness ==
    /\ Rejected(worktreeSetupPromise)
    /\ Len(calls) = 2
    /\ \A c \in CallIds :
          /\ EligibleCall(c)
          /\ calls[c].sessionID = setups[1].sessionID
          /\ calls[c].state = "returned"
          /\ calls[c].out = PathBag("/repo/src")
    /\ ~hasSessionWorktree(worktreeMap, setups[1].sessionID)

----------------------------------------------------------------------------
(* dyn-sym: the managed sections of .ignore (ignorefile.ts) and of          *)
(* .git/info/exclude (gitexclude.ts)                                        *)

SYM_DIR_NAME == ".sym"

MARKER_START == "# dyn-sym plugin (DO NOT EDIT)"
MARKER_END == "# end dyn-sym"

EXCLUDE_MARKER_START == "# dyn-sym plugin managed entries (DO NOT EDIT)"
EXCLUDE_MARKER_END == "# end dyn-sym plugin managed entries"

\* String.prototype.includes
includes(s, sub) == IndexFrom(s, sub, 1) # 0

RECURSIVE trimEnd(_)
trimEnd(s) ==
    IF Len(s) = 0 THEN ""
    ELSE IF IsSpace(CharAt(s, Len(s))) THEN trimEnd(SubSeq(s, 1, Len(s) - 1))
    ELSE s

RECURSIVE trimStart(_)
trimStart(s) ==
    IF Len(s) = 0 THEN ""
    ELSE IF IsSpace(CharAt(s, 1)) THEN trimStart(SubSeq(s, 2, Len(s)))
    ELSE s

trim(s) == trimStart(trimEnd(s))

\* s.split("\n")
RECURSIVE splitLines(_)
splitLines(s) ==
    LET i == IndexFrom(s, "\n", 1)
    IN IF i = 0 THEN <<s>>
       ELSE <<SubSeq(s, 1, i - 1)>> \o splitLines(SubSeq(s, i + 1, Len(s)))

\* lines.join("\n")
RECURSIVE joinLines(_)
joinLines(lines) ==
    IF Len(lines) = 0 THEN ""
    ELSE IF Len(lines) = 1 THEN lines[1]
    ELSE lines[1] \o "\n" \o joinLines(Tail(lines))

\* readIgnoreFile / readExcludeFile: a missing file reads as ""
readIgnoreFile(file) == IF file = Undefined THEN "" ELSE file.s

readExcludeFile(file) == IF file = Undefined THEN "" ELSE file.s

hasManagedSection(content) ==
    includes(content, MARKER_START) /\ includes(content, MARKER_END)

\* buildManagedSection of ignorefile.ts
buildManagedSection ==
    joinLines(<<MARKER_START, "!/" \o SYM_DIR_NAME \o "/", MARKER_END>>)

appendManagedSection(content) ==
    LET section == buildManagedSection
        trimmed == trimEnd(content)
    IN IF Len(trimmed) = 0 THEN section \o "\n"
       ELSE trimmed \o "\n\n" \o section \o "\n"

removeManagedSection(content) ==
    LET startIdx == IndexFrom(content, MARKER_START, 1)
        endIdx == IndexFrom(content, MARKER_END, 1)
    IN IF startIdx = 0 \/ endIdx = 0 \/ endIdx <= startIdx THEN content
       ELSE LET before == SubSeq(content, 1, startIdx - 1)
                after == SubSeq(content, endIdx + Len(MARKER_END), Len(content))
                result == trim(trimEnd(before) \o trimStart(after))
            IN IF Len(result) = 0 THEN "" ELSE result \o "\n"

\* the file after addIgnoreSection(worktreeRoot)
addIgnoreSection(file) ==
    LET content == readIgnoreFile(file)
    IN IF hasManagedSection(content) THEN file
       ELSE Str(appendManagedSection(content))

\* the file after removeIgnoreSection(worktreeRoot): unlinked when nothing
\* is left
removeIgnoreSection(file) ==
    IF file = Undefined THEN file
    ELSE IF ~hasManagedSection(file.s) THEN file
    ELSE LET newContent == removeManagedSection(file.s)
         IN IF Len(newContent) = 0 THEN Undefined ELSE Str(newContent)

extractManagedSection(content) ==
    LET startIdx == IndexFrom(content, EXCLUDE_MARKER_START, 1)
        endIdx == IndexFrom(content, EXCLUDE_MARKER_END, 1)
    IN IF startIdx = 0 \/ endIdx = 0 \/ endIdx <= startIdx THEN <<>>
       ELSE LET section == SubSeq(content, startIdx + Len(EXCLUDE_MARKER_START),
                                  endIdx - 1)
                lines == splitLines(section)
                trimmed == [k \in 1..Len(lines) |-> trim(lines[k])]
            IN SelectSeq(trimmed, LAMBDA line : Len(line) > 0)

\* buildManagedSection of gitexclude.ts
buildExcludeSection(entries) ==
    IF Len(entries) = 0 THEN ""
    ELSE joinLines(<<EXCLUDE_MARKER_START>> \o entries \o <<EXCLUDE_MARKER_END>>)

replaceManagedSection(content, newSection) ==
    LET startIdx == IndexFrom(content, EXCLUDE_MARKER_START, 1)
        endIdx == IndexFrom(content, EXCLUDE_MARKER_END, 1)
    IN IF startIdx # 0 /\ endIdx # 0 /\ endIdx > startIdx
       THEN LET before == SubSeq(content, 1, startIdx - 1)
                after == SubSeq(content, endIdx + Len(EXCLUDE_MARKER_END),
                                Len(content))
            IN IF Len(newSection) = 0
               THEN trim(trimEnd(before) \o trimStart(after))
               ELSE trimEnd(before) \o "\n" \o newSection \o after
       ELSE IF Len(newSection) = 0 THEN content
       ELSE LET trimmed == trimEnd(content)
            IN IF Len(trimmed) = 0 THEN newSection \o "\n"
               ELSE trimmed \o "\n\n" \o newSection \o "\n"

\* the exclude file after ensureSymDirExcluded(worktreeRoot), the worktree
\* being a git repository
ensureSymDirExcluded(file) ==
    LET content == readExcludeFile(file)
        currentEntries == extractManagedSection(content)
        symDirPattern == "/" \o SYM_DIR_NAME \o "/"
    IN IF \E k \in 1..Len(currentEntries) : currentEntries[k] = symDirPattern
       THEN file
       ELSE Str(replaceManagedSection(content,
                    buildExcludeSection(Append(currentEntries, symDirPattern))))

\* the exclude file after removeSymDirExclude(worktreeRoot)
removeSymDirExclude(file) ==
    LET content == readExcludeFile(file)
        newContent == replaceManagedSection(content, "")
    IN IF newContent # content THEN Str(newContent) ELSE file

----
(* Direct calls of the four functions on the files of one worktree, the     *)
(* user editing the files in between                                        *)

\* lines a user keeps in the two files
UserLineAlphabet == {"*.log", "tmp/"}

\* .ignore as the user, or an earlier run of the plugin, left it
IgnoreInputs ==
    {Undefined, Str("*.log\n"), Str("*.log\ntmp/"),
     Str("*.log\n\n" \o buildManagedSection \o "\ntmp/\n")}

ExcludeInputs ==
    {Undefined, Str("*.log\n"),
     Str("*.log\n\n" \o buildExcludeSection(<<"/.sym/">>) \o "\ntmp/\n")}

FileFrame ==
    UNCHANGED <<worktreeMap, branches, worktrees, dirs, gitignore, setups, hooks,
                worktreeSetupPromise, calls, wrap, faker, regLog, idLog,
                narration, activeIgnoreSections, rgCalls, bashwrapper>>

FileOp(op, file, before, after) ==
    [op |-> op, file |-> file, before |-> before, after |-> after]

AddIgnoreSectionCall ==
    /\ Len(fileLog) < MaxFileOps
    /\ ignoreFile' = addIgnoreSection(ignoreFile)
    /\ fileLog' = Append(fileLog, FileOp("add", "ignore", ignoreFile, ignoreFile'))
    /\ UNCHANGED excludeFile
    /\ FileFrame

RemoveIgnoreSectionCall ==
    /\ Len(fileLog) < MaxFileOps
    /\ ignoreFile' = removeIgnoreSection(ignoreFile)
    /\ fileLog' = Append(fileLog, FileOp("remove", "ignore", ignoreFile, ignoreFile'))
    /\ UNCHANGED excludeFile
    /\ FileFrame

EnsureSymDirExcludedCall ==
    /\ Len(fileLog) < MaxFileOps
    /\ excludeFile' = ensureSymDirExcluded(excludeFile)
    /\ fileLog' = Append(fileLog, FileOp("add", "exclude", excludeFile, excludeFile'))
    /\ UNCHANGED ignoreFile
    /\ FileFrame

RemoveSymDirExcludeCall ==
    /\ Len(fileLog) < MaxFileOps
    /\ excludeFile' = removeSymDirExclude(excludeFile)
    /\ fileLog' = Append(fileLog, FileOp("remove", "exclude", excludeFile, excludeFile'))
    /\ UNCHANGED ignoreFile
    /\ FileFrame

\* the user adds a line at the end of a file
UserAppend(file, line) ==
    IF file = Undefined THEN Str(line \o "\n")
    ELSE IF Len(file.s) = 0 THEN Str(line \o "\n")
    ELSE IF CharAt(file.s, Len(file.s)) = "\n"
    THEN Str(file.s \o line \o "\n")
    ELSE Str(file.s \o "\n" \o line \o "\n")

UserEditsIgnore ==
    /\ Len(fileLog) < MaxFileOps
    /\ \E line \in UserLineAlphabet :
          /\ ignoreFile' = UserAppend(ignoreFile, line)
          /\ fileLog' = Append(fileLog, FileOp("user", "ignore", ignoreFile, ignoreFile'))
    /\ UNCHANGED excludeFile
    /\ FileFrame

UserEditsExclude ==
    /\ Len(fileLog) < MaxFileOps
    /\ \E line \in UserLineAlphabet :
          /\ excludeFile' = UserAppend(excludeFile, line)
          /\ fileLog' = Append(fileLog, FileOp("user", "exclude", excludeFile, excludeFile'))
    /\ UNCHANGED ignoreFile
    /\ FileFrame

InitFiles ==
    /\ FreshRepo
    /\ dirs = {}
    /\ worktreeMap = EmptyMap
    /\ setups = <<>>
    /\ hooks = "uninit"
    /\ worktreeSetupPromise = 0
    /\ calls = <<>>
    /\ wrap = NoWrap
    /\ faker = FakerUnseeded
    /\ regLog = <<>>
    /\ idLog = <<>>
    /\ NarrationIdle
    /\ ignoreFile \in IgnoreInputs
    /\ excludeFile \in ExcludeInputs
    /\ fileLog = <<>>
    /\ activeIgnoreSections = NoActiveSections
    /\ rgCalls = <<>>
    /\ BashWrapperIdle

NextFiles ==
    \/ AddIgnoreSectionCall
    \/ RemoveIgnoreSectionCall
    \/ EnsureSymDirExcludedCall
    \/ RemoveSymDirExcludeCall
    \/ UserEditsIgnore
    \/ UserEditsExclude

SpecFiles == InitFiles /\ [][NextFiles]_vars

----
(* Claim C21                                                                *)

StartMarkerOf(file) ==
    IF file = "ignore" THEN MARKER_START ELSE EXCLUDE_MARKER_START

EndMarkerOf(file) ==
    IF file = "ignore" THEN MARKER_END ELSE EXCLUDE_MARKER_END

\* the lines of a file that are not blank and lie outside the managed
\* section (its two marker lines and what is between them)
UserLines(fileValue, file) ==
    LET lines == splitLines(IF fileValue = Undefined THEN "" ELSE fileValue.s)
        starts == {k \in 1..Len(lines) : lines[k] = StartMarkerOf(file)}
        a == IF starts = {} THEN 0 ELSE CHOOSE k \in starts : \A j \in starts : k <= j
        ends == {k \in 1..Len(lines) : k > a /\ lines[k] = EndMarkerOf(file)}
        b == IF ends = {} THEN 0 ELSE CHOOSE k \in ends : \A j \in ends : k <= j
    IN {lines[k] : k \in {j \in 1..Len(lines) :
                             /\ trim(lines[j]) # ""
                             /\ (a = 0 \/ b = 0 \/ j < a \/ j > b)}}

SectionsIn(fileValue, file) ==
    IF fileValue = Undefined THEN 0
    ELSE Cardinality(Occurrences(fileValue.s, StartMarkerOf(file)))

\* C21: no call that adds or removes a managed section loses or alters a
\* user line of the file (every non-blank line outside the markers before
\* the call is a line of the file after it, wherever the section stands),
\* and after a call that adds the section the file holds exactly one.
C21_UserContentPreserved ==
    \A i \in 1..Len(fileLog) :
        LET e == fileLog[i]
        IN e.op # "user" =>
              /\ UserLines(e.before, e.file) \subseteq UserLines(e.after, e.file)
              /\ e.op = "add" => SectionsIn(e.after, e.file) = 1

\* the part of C21 that the code keeps: adding preserves the user's lines
\* and never duplicates the section
C21_AddPreserves ==
    \A i \in 1..Len(fileLog) :
        LET e == fileLog[i]
        IN e.op = "add" =>
              /\ UserLines(e.before, e.file) \subseteq UserLines(e.after, e.file)
              /\ SectionsIn(e.after, e.file) = 1

----------------------------------------------------------------------------
(* dyn-sym: the two hooks of DynSymPlugin (the variant that adds the        *)
(* section before a ripgrep-based tool call and removes it after)           *)

RIPGREP_TOOLS == {"read", "grep", "glob", "list"}

RgTools == {"grep", "Read", "bash"}

\* input.worktree of the plugin
DynSymWorktree == RootDir

RgCallIds == 1..Len(rgCalls)

\* details.callID of the c-th call
CallIDOf(c) == BashCallIDs[c]

\* one tool call of the host: pc is the point its hooks or the tool have
\* reached, content what the pending fs.writeFile is to write
RgCall(tool, pc) == [tool |-> tool, pc |-> pc, content |-> ""]

DynSymFrame ==
    UNCHANGED <<worktreeMap, branches, worktrees, dirs, gitignore, setups, hooks,
                worktreeSetupPromise, calls, wrap, faker, regLog, idLog,
                narration, excludeFile, fileLog, bashwrapper>>

\* tool.execute.before is invoked: it returns at once for a tool that is
\* not ripgrep-based, else addIgnoreSection awaits readIgnoreFile
RgBefore ==
    /\ Len(rgCalls) < MaxRgCalls
    /\ \E tool \in RgTools :
          rgCalls' = Append(rgCalls,
                        RgCall(tool, IF toLowerCase(tool) \in RIPGREP_TOOLS
                                     THEN "addRead" ELSE "running"))
    /\ UNCHANGED <<ignoreFile, activeIgnoreSections>>
    /\ DynSymFrame

\* readIgnoreFile answers: with the section present addIgnoreSection
\* returns, the call is recorded and the hook returns; else fs.writeFile is
\* awaited
AddRead(c) ==
    /\ rgCalls[c].pc = "addRead"
    /\ LET content == readIgnoreFile(ignoreFile)
       IN IF hasManagedSection(content)
          THEN /\ activeIgnoreSections' =
                     setSessionWorktree(activeIgnoreSections, CallIDOf(c), DynSymWorktree)
               /\ rgCalls' = [rgCalls EXCEPT ![c].pc = "running"]
          ELSE /\ rgCalls' = [rgCalls EXCEPT ![c].pc = "addWrite",
                                             ![c].content = appendManagedSection(content)]
               /\ UNCHANGED activeIgnoreSections
    /\ UNCHANGED ignoreFile
    /\ DynSymFrame

\* fs.writeFile is done; the call is recorded and the hook returns
AddWrite(c) ==
    /\ rgCalls[c].pc = "addWrite"
    /\ ignoreFile' = Str(rgCalls[c].content)
    /\ activeIgnoreSections' =
          setSessionWorktree(activeIgnoreSections, CallIDOf(c), DynSymWorktree)
    /\ rgCalls' = [rgCalls EXCEPT ![c].pc = "running"]
    /\ DynSymFrame

\* the tool has run and tool.execute.after is invoked: it returns at once
\* for a call that is not recorded, else the record is deleted and
\* removeIgnoreSection awaits fs.readFile
RgAfter(c) ==
    /\ rgCalls[c].pc = "running"
    /\ IF CallIDOf(c) \in DOMAIN activeIgnoreSections
       THEN /\ activeIgnoreSections' =
                  clearSessionWorktree(activeIgnoreSections, CallIDOf(c))
            /\ rgCalls' = [rgCalls EXCEPT ![c].pc = "removeRead"]
       ELSE /\ rgCalls' = [rgCalls EXCEPT ![c].pc = "done"]
            /\ UNCHANGED activeIgnoreSections
    /\ UNCHANGED ignoreFile
    /\ DynSymFrame

\* fs.readFile answers: nothing to do without the file or the section, else
\* fs.unlink or fs.writeFile is awaited
RemoveRead(c) ==
    /\ rgCalls[c].pc = "removeRead"
    /\ IF ignoreFile = Undefined
       THEN rgCalls' = [rgCalls EXCEPT ![c].pc = "done"]
       ELSE IF ~hasManagedSection(ignoreFile.s)
       THEN rgCalls' = [rgCalls EXCEPT ![c].pc = "done"]
       ELSE rgCalls' = [rgCalls EXCEPT ![c].pc = "removeWrite",
                                       ![c].content = removeManagedSection(ignoreFile.s)]
    /\ UNCHANGED <<ignoreFile, activeIgnoreSections>>
    /\ DynSymFrame

\* fs.unlink or fs.writeFile is done and the hook returns
RemoveWrite(c) ==
    /\ rgCalls[c].pc = "removeWrite"
    /\ ignoreFile' = IF Len(rgCalls[c].content) = 0 THEN Undefined
                     ELSE Str(rgCalls[c].content)
    /\ rgCalls' = [rgCalls EXCEPT ![c].pc = "done"]
    /\ UNCHANGED activeIgnoreSections
    /\ DynSymFrame

\* the plugin is initialized: .sym is in the exclude file, the .ignore file
\* is as the user left it
InitDynSym ==
    /\ FreshRepo
    /\ dirs = {}
    /\ worktreeMap = EmptyMap
    /\ setups = <<>>
    /\ hooks = "uninit"
    /\ worktreeSetupPromise = 0
    /\ calls = <<>>
    /\ wrap = NoWrap
    /\ faker = FakerUnseeded
    /\ regLog = <<>>
    /\ idLog = <<>>
    /\ NarrationIdle
    /\ ignoreFile \in {Undefined, Str("*.log\n")}
    /\ excludeFile \in {ensureSymDirExcluded(f) : f \in {Undefined, Str("*.log\n")}}
    /\ fileLog = <<>>
    /\ activeIgnoreSections = NoActiveSections
    /\ rgCalls = <<>>
    /\ BashWrapperIdle

NextDynSym ==
    \/ RgBefore
    \/ \E c \in RgCallIds : AddRead(c)
    \/ \E c \in RgCallIds : AddWrite(c)
    \/ \E c \in RgCallIds : RgAfter(c)
    \/ \E c \in RgCallIds : RemoveRead(c)
    \/ \E c \in RgCallIds : RemoveWrite(c)

SpecDynSym == InitDynSym /\ [][NextDynSym]_vars

----
(* Claim C26                                                                *)

\* the c-th call is of a ripgrep-based tool and the tool is running: its
\* before hook has returned and its after hook has not been invoked
RgRunning(c) ==
    /\ toLowerCase(rgCalls[c].tool) \in RIPGREP_TOOLS
    /\ rgCalls[c].pc = "running"

\* hasIgnoreSection(worktree)
hasIgnoreSection == hasManagedSection(readIgnoreFile(ignoreFile))

\* C26: while a ripgrep-based tool call is between its before hook and its
\* after hook, the managed section is in the .ignore file, also when
\* another such call overlaps it and finishes first.
C26_SectionWhileRunning ==
    \A c \in RgCallIds : RgRunning(c) => hasIgnoreSection

\* the part of C26 that the code keeps: the only ripgrep-based call of a
\* behaviour has the section while it runs
C26_SectionWhenAlone ==
    \A c \in RgCallIds :
        (/\ RgRunning(c)
         /\ \A d \in RgCallIds \ {c} :
               toLowerCase(rgCalls[d].tool) \notin RIPGREP_TOOLS)
            => hasIgnoreSection

----------------------------------------------------------------------------
(* bash-wrapper: template selection at initialization (index.ts,            *)
(* condition.ts) and the hook that applies the template (template.ts)       *)

\* input.directory of the plugin and os.homedir()
BwDir == "/work/repo"

HomeDir == "/home/u"

\* findFileUpward: the directory holding fileName, from current upward; the
\* file-system root and the home directory end the walk unexamined
RECURSIVE findFileUpward(_, _, _)
findFileUpward(fileName, current, files) ==
    IF current = "/" \/ current = HomeDir THEN Null
    ELSE IF join(current, fileName) \in files THEN Str(current)
    ELSE LET parent == dirname(current)
         IN IF parent = current THEN Null
            ELSE findFileUpward(fileName, parent, files)

checkFileExists(filePath, baseDir, files) ==
    IF isAbsolute(filePath) THEN filePath \in files
    ELSE findFileUpward(filePath, baseDir, files) # Null

\* `which command` exits with 0
checkCommandExists(command, env) == command \in env.path

evaluateCondition(condition, baseDir, env) ==
    IF condition = Undefined THEN TRUE
    ELSE IF condition.file # Undefined
             /\ ~checkFileExists(condition.file.s, baseDir, env.files)
    THEN FALSE
    ELSE IF condition.command # Undefined
             /\ ~checkCommandExists(condition.command.s, env)
    THEN FALSE
    ELSE TRUE

\* the loop of selectTemplate from the k-th rule on
RECURSIVE SelectFrom(_, _, _, _)
SelectFrom(templates, k, baseDir, env) ==
    IF k > Len(templates) THEN Null
    ELSE IF evaluateCondition(templates[k].when, baseDir, env)
    THEN Str(templates[k].template)
    ELSE SelectFrom(templates, k + 1, baseDir, env)

\* the last matching rule winning
selectTemplate_LastMatch(config, baseDir, env) ==
    IF ~Falsy(config.template) THEN config.template
    ELSE LET m == {k \in 1..Len(config.templates) :
                     evaluateCondition(config.templates[k].when, baseDir, env)}
         IN IF m = {} THEN Null
            ELSE Str(config.templates[CHOOSE k \in m : \A j \in m : k >= j].template)

selectTemplate(config, baseDir, env) ==
    IF ~Falsy(config.template) THEN config.template
    ELSE SelectFrom(config.templates, 1, baseDir, env)

\* a backslash before each of \ " $ (and before the backquote, which no
\* command of the model holds)
RECURSIVE escapeDoubleQuoted(_)
escapeDoubleQuoted(str) ==
    IF Len(str) = 0 THEN ""
    ELSE LET c == CharAt(str, 1)
         IN (IF c \in {"\\", "\"", "$"} THEN "\\" \o c ELSE c)
              \o escapeDoubleQuoted(SubSeq(str, 2, Len(str)))

escapeSingleQuoted(str) == SplitJoin(str, "'", "'\\''")

\* the three global replacements, for a command without $-patterns of
\* String.prototype.replace
applyTemplate(template, command) ==
    SplitJoin(
        SplitJoin(
            SplitJoin(template, "${command:quoted}", escapeDoubleQuoted(command)),
            "${command:single}", escapeSingleQuoted(command)),
        "${command}", command)

\* { ...state.args }
ArgsCopy(args) == [k |-> "object", s |-> args.command.s]

\* tool.execute.before of the plugin, with the template of its closure
BwHook(template, tool, args) ==
    IF args = Undefined THEN args
    ELSE IF toLowerCase(tool) # "bash" THEN args
    ELSE IF ~IsString(args.command) THEN args
    ELSE IF ~TrimNonEmpty(args.command.s) THEN args
    ELSE [args EXCEPT !.displayInput = ArgsCopy(args),
                      !.command = Str(applyTemplate(template, args.command.s))]

----
(* The plugin in its environment                                            *)

T_raw == "${command}"
T_nix == "nix -c \"${command:quoted}\""
T_ssh == "ssh h '${command:single}'"

EnvFiles == {"/work/repo/flake.nix", "/work/flake.nix"}

EnvCommands == {"nix"}

Conditions ==
    {Undefined,
     [file |-> Str("flake.nix"), command |-> Str("nix")],
     [file |-> Str("flake.nix"), command |-> Undefined]}

Rules == [template : {T_nix, T_raw}, when : Conditions]

RuleSeqs == {<<>>} \cup {<<r>> : r \in Rules} \cup {<<r, q>> : r, q \in Rules}

\* what loadPluginConfig returns: null without a config file
ConfigInputs ==
    {Null}
      \cup [template : {Undefined, Str("")}, templates : RuleSeqs]
      \cup [template : {Str(T_ssh), Str(T_raw)},
            templates : {<<>>, <<[template |-> T_nix, when |-> Undefined]>>}]

BwTools == {"Bash", "read"}

BwArgs ==
    {Undefined} \cup [command : {Str("ls -l"), Str("echo \"$A\""), Str("  ")},
                      displayInput : {Undefined}]

BwFrame ==
    UNCHANGED <<worktreeMap, branches, worktrees, dirs, gitignore, setups, hooks,
                worktreeSetupPromise, calls, wrap, faker, regLog, idLog,
                narration, dynsym>>

\* BashWrapperPlugin(input): the hook is returned with the template chosen
\* now; env records the environment the choice was made in
BwPluginInit ==
    /\ bwPlugin.state = "uninit"
    /\ bwPlugin' =
          IF bwConfig = Null
          THEN [state |-> "none", template |-> Null, env |-> bwEnv]
          ELSE LET template == selectTemplate(bwConfig, BwDir, bwEnv)
               IN IF Falsy(template) \/ template = Str(T_raw)
                  THEN [state |-> "none", template |-> template, env |-> bwEnv]
                  ELSE [state |-> "registered", template |-> template, env |-> bwEnv]
    /\ UNCHANGED <<bwEnv, bwConfig, bwCalls>>
    /\ BwFrame

\* a tool call of the host when the plugin returned its hook
BwHookCall ==
    /\ bwPlugin.state = "registered"
    /\ bwCalls.n < MaxBwCalls
    /\ \E tool \in BwTools, args \in BwArgs :
          bwCalls' = [n |-> bwCalls.n + 1,
                      last |-> [tool |-> tool, before |-> args,
                                after |-> BwHook(bwPlugin.template.s, tool, args)]]
    /\ UNCHANGED <<bwEnv, bwConfig, bwPlugin>>
    /\ BwFrame

\* a tool call of the host when the plugin returned no hook
BwUnhookedCall ==
    /\ bwPlugin.state = "none"
    /\ bwCalls.n < MaxBwCalls
    /\ \E tool \in BwTools, args \in BwArgs :
          bwCalls' = [n |-> bwCalls.n + 1,
                      last |-> [tool |-> tool, before |-> args, after |-> args]]
    /\ UNCHANGED <<bwEnv, bwConfig, bwPlugin>>
    /\ BwFrame

\* a file the conditions look for is created or deleted
EnvFileChanges ==
    /\ \E f \in EnvFiles :
          bwEnv' = [bwEnv EXCEPT !.files = IF f \in @ THEN @ \ {f} ELSE @ \cup {f}]
    /\ UNCHANGED <<bwConfig, bwPlugin, bwCalls>>
    /\ BwFrame

\* a command the conditions look for is installed or removed
EnvPathChanges ==
    /\ \E c \in EnvCommands :
          bwEnv' = [bwEnv EXCEPT !.path = IF c \in @ THEN @ \ {c} ELSE @ \cup {c}]
    /\ UNCHANGED <<bwConfig, bwPlugin, bwCalls>>
    /\ BwFrame

InitBashWrapper ==
    /\ FreshRepo
    /\ dirs = {}
    /\ worktreeMap = EmptyMap
    /\ setups = <<>>
    /\ hooks = "uninit"
    /\ worktreeSetupPromise = 0
    /\ calls = <<>>
    /\ wrap = NoWrap
    /\ faker = FakerUnseeded
    /\ regLog = <<>>
    /\ idLog = <<>>
    /\ NarrationIdle
    /\ DynSymIdle
    /\ bwEnv \in [files : SUBSET EnvFiles, path : SUBSET EnvCommands]
    /\ bwConfig \in ConfigInputs
    /\ bwPlugin = [state |-> "uninit", template |-> Null, env |-> bwEnv]
    /\ bwCalls = [n |-> 0, last |-> Undefined]

NextBashWrapper ==
    \/ BwPluginInit
    \/ BwHookCall
    \/ BwUnhookedCall
    \/ EnvFileChanges
    \/ EnvPathChanges

SpecBashWrapper == InitBashWrapper /\ [][NextBashWrapper]_vars

----
(* Claim C22                                                                *)

\* the rules of the configuration whose when-condition holds in env
Matching(config, env) ==
    {k \in 1..Len(config.templates) :
        evaluateCondition(config.templates[k].when, BwDir, env)}

\* config.template when set (a non-empty string), else the template of the
\* first matching rule, else nothing
ChosenTemplate(config, env) ==
    IF config = Null THEN Null
    ELSE IF IsString(config.template) /\ config.template.s # "" THEN config.template
    ELSE LET m == Matching(config, env)
         IN IF m = {} THEN Null
            ELSE Str(config.templates[CHOOSE k \in m : \A j \in m : k <= j].template)

\* the bash calls the hook is to wrap
Wrappable(call) ==
    /\ call.before # Undefined
    /\ toLowerCase(call.tool) = "bash"
    /\ IsString(call.before.command)
    /\ TrimNonEmpty(call.before.command.s)

\* C22: once the plugin is initialized, the template of its hook is the one
\* chosen from the configuration in the environment of initialization
\* (config.template when set, else the first rule in order whose condition
\* held then), whatever the environment has become since; without a
\* configuration, without a matching rule or with ${command} chosen there
\* is no hook and no call's args are modified; with a hook, a bash call is
\* wrapped with that template.
C22_TemplateSelection ==
    bwPlugin.state # "uninit" =>
        LET chosen == ChosenTemplate(bwConfig, bwPlugin.env)
        IN /\ (chosen = Null \/ chosen = Str(T_raw)) => bwPlugin.state = "none"
           /\ bwPlugin.state = "registered" => bwPlugin.template = chosen
           /\ bwCalls.last # Undefined =>
                 IF bwPlugin.state = "registered" /\ Wrappable(bwCalls.last)
                 THEN bwCalls.last.after.command
                          = Str(applyTemplate(chosen.s, bwCalls.last.before.command.s))
                 ELSE bwCalls.last.after = bwCalls.last.before

\* a bash call wrapped with the template of the second rule, chosen when
\* the first rule did not match, although the first would match by now
C22_Witness ==
    /\ bwPlugin.state = "registered"
    /\ bwConfig.template = Undefined
    /\ Len(bwConfig.templates) = 2
    /\ Matching(bwConfig, bwPlugin.env) = {2}
    /\ 1 \in Matching(bwConfig, bwEnv)
    /\ bwConfig.templates[1].template # bwConfig.templates[2].template
    /\ bwCalls.last # Undefined
    /\ Wrappable(bwCalls.last)
    /\ bwCalls.last.after.command # bwCalls.last.before.command
====
